---------------------------- MODULE Spec2Model ----------------------------
(***************************************************************************)
(* QFT-Plus Viewer (qft_viewer_final.py): the result classifier            *)
(* calculate_comment and the data it reads, the display formatter          *)
(* format_number_with_decimals, the summary totals of export_to_pdf, the   *)
(* sessions database, and the handlers that replace, extend, reorder or    *)
(* drop the loaded data: import_data, load_selected_session, clear_data,   *)
(* on_closing, sort_data and the manual order dialog.                      *)
(*                                                                         *)
(* A Python string is a sequence of one-character strings, so that         *)
(* replace, strip, upper and float act on its characters.  A value stored  *)
(* in a row dictionary is [t |-> "str", s |-> <characters>] or Python's    *)
(* None, [t |-> "None", s |-> <<>>].  A row dictionary is a function from  *)
(* the keys it holds to such values: an absent key is not in its DOMAIN.   *)
(***************************************************************************)
EXTENDS Integers, Sequences, FiniteSets, TLC

VARIABLES
    current_data,   \* QFTApp.current_data: the list of row dictionaries
    comment,        \* the value the latest calculate_comment call returned
    calls,          \* the calculate_comment calls made so far: argument, result
    raw_value,      \* the field value handed to format_number_with_decimals
    decimal_places, \* app_settings['decimal_places']
    display_value,  \* what format_number_with_decimals returned for them
    summary,        \* the totals on the summary page of the latest PDF export
    sessions,       \* the rows of the table sessions
    results,        \* the rows of the table results, listed by session_id
    sqlite_sequence,           \* the largest session_id AUTOINCREMENT has given
    imported_filename_source,  \* QFTApp.imported_filename_source
    last_op,        \* the latest operation on the data: its arguments and outcome
    sort_var,       \* QFTApp.sort_var: the option shown in the sort dropdown
    order_dialog,   \* the manual order dialog: open or not, its listbox_data_map
    destroyed       \* the main window was destroyed by on_closing

vars == <<current_data, comment, calls, raw_value, decimal_places, display_value,
          summary, sessions, results, sqlite_sequence, imported_filename_source,
          last_op, sort_var, order_dialog, destroyed>>

database_vars == <<sessions, results, sqlite_sequence, imported_filename_source,
                   last_op>>

classifier_vars == <<current_data, comment, calls>>

formatter_vars == <<raw_value, decimal_places, display_value>>

window_vars == <<sort_var, order_dialog, destroyed>>

-----------------------------------------------------------------------------
(* Bounds of the model *)

\* rows of current_data in the batch specification
MaxRows == 3

\* session_ids AUTOINCREMENT gives out before the model stops creating sessions
MaxSessions == 2

-----------------------------------------------------------------------------
(* Python values and strings *)

Str(chars) == [t |-> "str", s |-> chars]

None == [t |-> "None", s |-> <<>>]

\* a datetime.datetime of whole seconds, by its digits as
\* strftime('%Y-%m-%d %H:%M:%S') writes them
Datetime(chars) == [t |-> "datetime", s |-> chars]

\* marks a key left out of a row dictionary while the row is built
Absent == [t |-> "absent", s |-> <<>>]

\* str(x): a string is itself, None is "None"
str(v) == IF v.t = "None" THEN <<"N", "o", "n", "e">> ELSE v.s

\* dict.get(key, default)
Get(row_dict, key, default) ==
    IF key \in DOMAIN row_dict THEN row_dict[key] ELSE default

LowerLetters ==
    <<"a", "b", "c", "d", "e", "f", "g", "h", "i", "j", "k", "l", "m",
      "n", "o", "p", "q", "r", "s", "t", "u", "v", "w", "x", "y", "z">>

UpperLetters ==
    <<"A", "B", "C", "D", "E", "F", "G", "H", "I", "J", "K", "L", "M",
      "N", "O", "P", "Q", "R", "S", "T", "U", "V", "W", "X", "Y", "Z">>

UpperChar(c) ==
    IF \E i \in 1..26 : LowerLetters[i] = c
    THEN UpperLetters[CHOOSE i \in 1..26 : LowerLetters[i] = c]
    ELSE c

LowerChar(c) ==
    IF \E i \in 1..26 : UpperLetters[i] = c
    THEN LowerLetters[CHOOSE i \in 1..26 : UpperLetters[i] = c]
    ELSE c

\* str.upper()
upper(chars) == [i \in 1..Len(chars) |-> UpperChar(chars[i])]

\* str.lower()
lower(chars) == [i \in 1..Len(chars) |-> LowerChar(chars[i])]

\* str.replace(old, ''): every occurrence of the character old is removed
replace(chars, old) == SelectSeq(chars, LAMBDA c : c # old)

Whitespace == {" ", "\t", "\n", "\r", "\f"}

\* str.strip(): leading and trailing whitespace removed
strip(chars) ==
    LET keep == {i \in 1..Len(chars) : chars[i] \notin Whitespace}
    IN  IF keep = {} THEN <<>>
        ELSE LET first == CHOOSE i \in keep : \A j \in keep : i <= j
                 last  == CHOOSE i \in keep : \A j \in keep : j <= i
             IN  SubSeq(chars, first, last)

-----------------------------------------------------------------------------
(* float(): Python's conversion of a string to a floating-point number.    *)
(* A finite value is the exact rational num/den with den a power of ten.   *)
(* The strings of this model have a few digits only, and for those the     *)
(* order of the doubles Python compares is the order of these rationals    *)
(* (rounding to the nearest double is monotone and the thresholds are      *)
(* themselves such strings); exponents stay far from the double's range.   *)

DigitChars == <<"0", "1", "2", "3", "4", "5", "6", "7", "8", "9">>

IsDigit(c) == \E i \in 1..10 : DigitChars[i] = c

DigitVal(c) == (CHOOSE i \in 1..10 : DigitChars[i] = c) - 1

\* digits, with single underscores allowed between two digits
IsDigitPart(chars) ==
    /\ Len(chars) > 0
    /\ \A i \in 1..Len(chars) :
          \/ IsDigit(chars[i])
          \/ /\ chars[i] = "_"
             /\ 1 < i /\ i < Len(chars)
             /\ IsDigit(chars[i - 1]) /\ IsDigit(chars[i + 1])

RECURSIVE DigitsValue(_)
DigitsValue(chars) ==
    IF chars = <<>> THEN 0
    ELSE LET init == SubSeq(chars, 1, Len(chars) - 1)
             last == chars[Len(chars)]
         IN  IF last = "_" THEN DigitsValue(init)
             ELSE 10 * DigitsValue(init) + DigitVal(last)

NumDigits(chars) == Len(SelectSeq(chars, IsDigit))

RECURSIVE Pow10(_)
Pow10(n) == IF n <= 0 THEN 1 ELSE 10 * Pow10(n - 1)

\* index of the first character of chars that is in set, 0 when none is
IndexOf(chars, set) ==
    LET hits == {i \in 1..Len(chars) : chars[i] \in set}
    IN  IF hits = {} THEN 0 ELSE CHOOSE i \in hits : \A j \in hits : i <= j

Finite(n, d) == [k |-> "num", num |-> n, den |-> d]

NaN == [k |-> "nan", num |-> 0, den |-> 1]

Inf(sign) == [k |-> "inf", num |-> sign, den |-> 1]

\* float() raised ValueError
ValueError == [k |-> "ValueError", num |-> 0, den |-> 1]

\* the number with the digits ip before the point, fp after it, and the
\* exponent digits expDigits (negated when expNeg); hasExp: an 'e' was found
FloatDigits(sign, ip, fp, hasExp, expNeg, expDigits) ==
    IF /\ ip = <<>> \/ IsDigitPart(ip)
       /\ fp = <<>> \/ IsDigitPart(fp)
       /\ ip # <<>> \/ fp # <<>>
       /\ ~hasExp \/ IsDigitPart(expDigits)
    THEN IF expNeg
         THEN Finite(sign * (DigitsValue(ip) * Pow10(NumDigits(fp)) + DigitsValue(fp)),
                     Pow10(NumDigits(fp)) * Pow10(DigitsValue(expDigits)))
         ELSE Finite(sign * (DigitsValue(ip) * Pow10(NumDigits(fp)) + DigitsValue(fp))
                          * Pow10(DigitsValue(expDigits)),
                     Pow10(NumDigits(fp)))
    ELSE ValueError

\* the mantissa mant split at its point, the exponent expo at its sign
FloatParts(sign, mant, hasExp, expo) ==
    LET dot       == IndexOf(mant, {"."})
        expSigned == expo # <<>> /\ expo[1] \in {"+", "-"}
    IN  FloatDigits(sign,
                    IF dot = 0 THEN mant ELSE SubSeq(mant, 1, dot - 1),
                    IF dot = 0 THEN <<>> ELSE SubSeq(mant, dot + 1, Len(mant)),
                    hasExp,
                    expSigned /\ expo[1] = "-",
                    IF expSigned THEN Tail(expo) ELSE expo)

\* the literal body after its sign: inf, infinity and nan in any case, or a
\* decimal number split at its 'e'
FloatBody(sign, body) ==
    LET ePos == IndexOf(body, {"e", "E"})
    IN  IF lower(body) \in {<<"i", "n", "f">>,
                            <<"i", "n", "f", "i", "n", "i", "t", "y">>}
            THEN Inf(sign)
        ELSE IF lower(body) = <<"n", "a", "n">> THEN NaN
        ELSE FloatParts(sign,
                        IF ePos = 0 THEN body ELSE SubSeq(body, 1, ePos - 1),
                        ePos # 0,
                        IF ePos = 0 THEN <<>> ELSE SubSeq(body, ePos + 1, Len(body)))

\* the stripped literal s split into its sign and its body
FloatSigned(s) ==
    LET signed == s # <<>> /\ s[1] \in {"+", "-"}
    IN  FloatBody(IF signed /\ s[1] = "-" THEN -1 ELSE 1,
                  IF signed THEN Tail(s) ELSE s)

float(value_str) == FloatSigned(strip(value_str))

Raised(x) == x.k = "ValueError"

\* x < y on floats: false when either is NaN
Lt(x, y) ==
    CASE x.k = "nan" \/ y.k = "nan" -> FALSE
      [] x.k = "inf" /\ y.k = "inf" -> x.num < y.num
      [] x.k = "inf"                -> x.num < 0
      [] y.k = "inf"                -> y.num > 0
      [] OTHER                      -> x.num * y.den < y.num * x.den

\* x == y on floats
Eq(x, y) ==
    CASE x.k = "nan" \/ y.k = "nan" -> FALSE
      [] x.k = "inf" \/ y.k = "inf" -> x.k = y.k /\ x.num = y.num
      [] OTHER                      -> x.num * y.den = y.num * x.den

Gt(x, y) == Lt(y, x)

Le(x, y) == Lt(x, y) \/ Eq(x, y)

Ge(x, y) == Lt(y, x) \/ Eq(x, y)

-----------------------------------------------------------------------------
(* calculate_comment *)

\* the thresholds of the assay, as calculate_comment writes them
StrongCutoff == Finite(10, 10)       \* 1.0

WpFloor == Finite(35, 100)           \* 0.35

HighNilCeiling == Finite(80, 10)     \* 8.0

LowMitFloor == Finite(5, 10)         \* 0.5

NumericKeys == {"nil_result", "tb1_nil", "tb2_nil", "mit_nil"}

POS == <<"P", "O", "S">>

POSSTAR == <<"P", "O", "S", "*">>

IND == <<"I", "N", "D">>

\* str(row_dict.get('qft_result', '')).upper()
QftResult(row_dict) == upper(str(Get(row_dict, "qft_result", Str(<<>>))))

\* the conversion without the default of get: an absent key gives None
NumField_nodefault(row_dict, key) ==
    LET val_str == strip(replace(replace(str(Get(row_dict, key, None)), ">"), "<"))
    IN  IF val_str # <<>> THEN float(val_str) ELSE Finite(0, 1)

\* the conversion removing '>' only
NumField_gt_only(row_dict, key) ==
    LET val_str == strip(replace(str(Get(row_dict, key, Str(<<"0">>))), ">"))
    IN  IF val_str # <<>> THEN float(val_str) ELSE Finite(0, 1)

\* x_str = str(row_dict.get(key, '0')).replace('>', '').replace('<', '').strip()
\* x     = float(x_str) if x_str else 0.0
NumField(row_dict, key) ==
    LET val_str == strip(replace(replace(str(Get(row_dict, key, Str(<<"0">>))), ">"), "<"))
    IN  IF val_str # <<>> THEN float(val_str) ELSE Finite(0, 1)

\* the strong-positive test with 'and' in place of 'or'
IsStrongPositive_and(tb1_nil, tb2_nil) ==
    Ge(tb1_nil, StrongCutoff) /\ Ge(tb2_nil, StrongCutoff)

\* tb1_nil >= 1.0 or tb2_nil >= 1.0
IsStrongPositive(tb1_nil, tb2_nil) ==
    Ge(tb1_nil, StrongCutoff) \/ Ge(tb2_nil, StrongCutoff)

\* the weak-positive range with its floor excluded
is_wp_open(x) == Lt(WpFloor, x) /\ Lt(x, StrongCutoff)

\* 0.35 <= x < 1.0
is_wp(x) == Le(WpFloor, x) /\ Lt(x, StrongCutoff)

\* the weak-positive labels with TB1 and TB2 exchanged
WeakPositiveComment_swapped(is_wp_tb1, is_wp_tb2, comment0) ==
    IF is_wp_tb1 /\ is_wp_tb2 THEN "WP (Both)"
    ELSE IF is_wp_tb1 THEN "WP (TB2)"
    ELSE IF is_wp_tb2 THEN "WP (TB1)"
    ELSE comment0

\* if/elif/elif over is_wp_tb1 and is_wp_tb2; no else: comment keeps its value
WeakPositiveComment(is_wp_tb1, is_wp_tb2, comment0) ==
    IF is_wp_tb1 /\ is_wp_tb2 THEN "WP (Both)"
    ELSE IF is_wp_tb1 THEN "WP (TB1)"
    ELSE IF is_wp_tb2 THEN "WP (TB2)"
    ELSE comment0

\* the low-mitogen test with <= in place of <
IsLowMit_le(mit_nil) == Le(mit_nil, LowMitFloor)

\* mit_nil < 0.5
IsLowMit(mit_nil) == Lt(mit_nil, LowMitFloor)

\* the indeterminate reasons with the mitogen tested first
IndeterminateComment_mit_first(nil_val, mit_nil, comment0) ==
    IF IsLowMit(mit_nil) THEN "Low Mit"
    ELSE IF Gt(nil_val, HighNilCeiling) THEN "High Nil"
    ELSE comment0

\* if nil_val > 8.0 ... elif mit_nil < 0.5 ...; no else
IndeterminateComment(nil_val, mit_nil, comment0) ==
    IF Gt(nil_val, HighNilCeiling) THEN "High Nil"
    ELSE IF IsLowMit(mit_nil) THEN "Low Mit"
    ELSE comment0

\* the branches with the IND test turned into a plain else
Branches_else(qft_result, nil_val, tb1_nil, tb2_nil, mit_nil, comment0) ==
    IF qft_result \in {POS, POSSTAR}
    THEN IF IsStrongPositive(tb1_nil, tb2_nil) THEN ""
         ELSE WeakPositiveComment(is_wp(tb1_nil), is_wp(tb2_nil), comment0)
    ELSE IndeterminateComment(nil_val, mit_nil, comment0)

\* if qft_result in ('POS', 'POS*') ... elif qft_result == 'IND' ...; no else
Branches(qft_result, nil_val, tb1_nil, tb2_nil, mit_nil, comment0) ==
    IF qft_result \in {POS, POSSTAR}
    THEN IF IsStrongPositive(tb1_nil, tb2_nil) THEN ""
         ELSE WeakPositiveComment(is_wp(tb1_nil), is_wp(tb2_nil), comment0)
    ELSE IF qft_result = IND
    THEN IndeterminateComment(nil_val, mit_nil, comment0)
    ELSE comment0

\* the body of calculate_comment, comment starting as comment0; the four
\* conversions run in order inside the try, and a ValueError raised by any of
\* them reaches the except clause, which sets "Error"
CommentFrom(row_dict, comment0) ==
    LET qft_result == QftResult(row_dict)
        nil_val    == NumField(row_dict, "nil_result")
        tb1_nil    == NumField(row_dict, "tb1_nil")
        tb2_nil    == NumField(row_dict, "tb2_nil")
        mit_nil    == NumField(row_dict, "mit_nil")
    IN  IF Raised(nil_val) \/ Raised(tb1_nil) \/ Raised(tb2_nil) \/ Raised(mit_nil)
        THEN "Error"
        ELSE Branches(qft_result, nil_val, tb1_nil, tb2_nil, mit_nil, comment0)

\* what a call returns before any call was made
NoComment == "(no call yet)"

\* what the caller sees when an exception leaves the function
Uncaught == "(ValueError raised)"

\* the function with comment kept from the call before
calculate_comment_stale(row_dict) ==
    CommentFrom(row_dict, IF comment = NoComment THEN "" ELSE comment)

\* the function without its try/except
calculate_comment_notry(row_dict) ==
    IF CommentFrom(row_dict, "") = "Error" THEN Uncaught
    ELSE CommentFrom(row_dict, "")

\* comment = "" ... return comment
calculate_comment(row_dict) == CommentFrom(row_dict, "")

-----------------------------------------------------------------------------
(* The display formatter: format_number_with_decimals(value_str,           *)
(* decimals_setting).  The operator gives the SET of results a call can    *)
(* have.  The set has one member except for a decimal tie (a value exactly *)
(* halfway between two N-digit values) that no double represents: there    *)
(* the digit printed depends on the side of the tie the nearest double     *)
(* lies on, which a rational num/den does not tell, and the set holds both *)
(* neighbours.                                                             *)

\* the result of a call no call has been made for yet
NotFormatted == [t |-> "(no call yet)", s |-> <<>>]

\* an OverflowError that leaves the function
OverflowError == [t |-> "OverflowError", s |-> <<>>]

\* the decimals setting 'default'
DefaultSetting == Str(<<"d", "e", "f", "a", "u", "l", "t">>)

\* the digits of a natural number
RECURSIVE NatChars(_)
NatChars(n) ==
    IF n < 10 THEN <<DigitChars[n + 1]>>
    ELSE Append(NatChars(n \div 10), DigitChars[(n % 10) + 1])

\* str(n) of an int
IntChars(n) == IF n < 0 THEN <<"-">> \o NatChars(-n) ELSE NatChars(n)

\* the last width digits of n, zero-padded
RECURSIVE PadChars(_, _)
PadChars(n, width) ==
    IF width <= 0 THEN <<>>
    ELSE Append(PadChars(n \div 10, width - 1), DigitChars[(n % 10) + 1])

\* int(): accepts everything as 0
int_lenient(decimals_setting) == [k |-> "int", val |-> 0]

\* int(decimals_setting): an int, or ValueError (a string that is not an
\* integer literal) or TypeError (None)
int(decimals_setting) ==
    LET s      == strip(decimals_setting.s)
        signed == s # <<>> /\ s[1] \in {"+", "-"}
        body   == IF signed THEN Tail(s) ELSE s
    IN  IF decimals_setting.t # "str" THEN [k |-> "TypeError", val |-> 0]
        ELSE IF IsDigitPart(body)
            THEN [k |-> "int",
                  val |-> IF s[1] = "-" THEN -DigitsValue(body) ELSE DigitsValue(body)]
        ELSE [k |-> "ValueError", val |-> 0]

\* the float is num/den with den a power of two: a double holds it exactly
IsDyadic(num) == \E k \in 0..10 : (num.num * (2 ^ k)) % num.den = 0

Abs(n) == IF n < 0 THEN -n ELSE n

\* digits beyond the N-th cut off instead of rounded
RoundToDecimals_truncate(num, decimals) ==
    {(Abs(num.num) * Pow10(decimals)) \div num.den}

\* |num| in units of 10^-decimals, correctly rounded from the double: to
\* the nearest unit, an exact tie to the even one
RoundToDecimals(num, decimals) ==
    LET scaled == Abs(num.num) * Pow10(decimals)
        q      == scaled \div num.den
        r      == scaled % num.den
    IN  IF 2 * r < num.den THEN {q}
        ELSE IF 2 * r > num.den THEN {q + 1}
        ELSE IF IsDyadic(num) THEN {IF q % 2 = 0 THEN q ELSE q + 1}
        ELSE {q, q + 1}

\* the sign bit of the float parsed from the stripped string
IsNegative(value_str) == value_str # <<>> /\ value_str[1] = "-"

\* sign, integer digits and, for decimals > 0, a point and decimals digits
FixedPoint(negative, units, decimals) ==
    (IF negative THEN <<"-">> ELSE <<>>)
    \o NatChars(units \div Pow10(decimals))
    \o (IF decimals > 0 THEN <<".">> \o PadChars(units % Pow10(decimals), decimals)
        ELSE <<>>)

\* f"{num:.{decimals}f}"
FormatFixed(value_str, num, decimals) ==
    CASE num.k = "nan" -> {<<"n", "a", "n">>}
      [] num.k = "inf" -> {IF num.num < 0 THEN <<"-", "i", "n", "f">>
                           ELSE <<"i", "n", "f">>}
      [] OTHER -> {FixedPoint(IsNegative(value_str), units, decimals) :
                      units \in RoundToDecimals(num, decimals)}

\* if not value_str or value_str == " ": never taken
IsBlank_never(value_str) == FALSE

\* if not value_str or value_str == " " (value_str already stripped)
IsBlank(value_str) == value_str = <<>> \/ value_str = <<" ">>

\* if '>' in value_str or '<' in value_str
IsComparison(value_str) ==
    \E i \in 1..Len(value_str) : value_str[i] \in {">", "<"}

\* the comparison string returned without its operator
ComparisonResult_number(value_str) == Str(replace(replace(value_str, ">"), "<"))

\* return value_str, for a comparison string
ComparisonResult(value_str) == Str(value_str)

\* value_str = value_str.strip() left out
Stripped_asis(value_str) == str(value_str)

\* value_str = str(value_str) unless it is a str; value_str.strip()
Stripped(value_str) == strip(str(value_str))

\* the branch decimals_setting == 'default'
FormatDefault(value_str, num) ==
    CASE num.k = "nan" -> {Str(value_str)}     \* int(nan): ValueError, caught
      [] num.k = "inf" -> {OverflowError}      \* int(inf): OverflowError, not caught
      [] OTHER ->
            IF num.num % num.den = 0 THEN {Str(IntChars(num.num \div num.den))}
            ELSE {Str(value_str)}

\* the branch of any other decimals_setting
FormatDecimals(value_str, num, decimals_setting) ==
    LET decimals == int(decimals_setting)
    IN  IF decimals.k # "int" THEN {Str(value_str)}     \* ValueError, TypeError
        ELSE IF decimals.val < 0 THEN {Str(value_str)}  \* '.-1f': ValueError
        ELSE {Str(chars) : chars \in FormatFixed(value_str, num, decimals.val)}

format_number_with_decimals(value_str, decimals_setting) ==
    LET stripped == Stripped(value_str)
        num      == float(stripped)
    IN  IF IsBlank(stripped) THEN {Str(<<" ">>)}
        ELSE IF IsComparison(stripped) THEN {ComparisonResult(stripped)}
        ELSE IF Raised(num) THEN {Str(stripped)}
        ELSE IF decimals_setting = DefaultSetting THEN FormatDefault(stripped, num)
        ELSE FormatDecimals(stripped, num, decimals_setting)

-----------------------------------------------------------------------------
(* The summary page of export_to_pdf: the totals computed by its loop over *)
(* all_results_for_summary, the list get_data_for_export returns.          *)

\* the characters of a comment calculate_comment returns
CommentChars(comment_str) ==
    CASE comment_str = "WP (TB1)"  -> <<"W", "P", " ", "(", "T", "B", "1", ")">>
      [] comment_str = "WP (TB2)"  -> <<"W", "P", " ", "(", "T", "B", "2", ")">>
      [] comment_str = "WP (Both)" -> <<"W", "P", " ", "(", "B", "o", "t", "h", ")">>
      [] comment_str = "High Nil"  -> <<"H", "i", "g", "h", " ", "N", "i", "l">>
      [] comment_str = "Low Mit"   -> <<"L", "o", "w", " ", "M", "i", "t">>
      [] comment_str = "Error"     -> <<"E", "r", "r", "o", "r">>
      [] OTHER                     -> <<>>

\* sub in chars
Contains(sub, chars) ==
    \E i \in 0..(Len(chars) - Len(sub)) : SubSeq(chars, i + 1, i + Len(sub)) = sub

NEG == <<"N", "E", "G">>

\* tb1_nil and tb2_nil as the strong-positive check of the summary reads them
SummaryNumField(res, key) ==
    LET val_str == strip(replace(replace(str(Get(res, key, Str(<<"0">>))), ">"), "<"))
    IN  IF val_str # <<>> /\ val_str # <<" ">> THEN float(val_str) ELSE Finite(0, 1)

\* the counters with the names they have in export_to_pdf
CounterNames ==
    {"total_samples", "positive_results_count", "tb1_strong_only",
     "tb2_strong_only", "both_tb_strong", "wp_total_count", "wp_tb1_only",
     "wp_tb2_only", "wp_both", "negative_results_count",
     "indeterminate_results_count", "high_nil_count", "low_mit_count"}

\* the else branch of a positive without 'WP': the counters incremented,
\* none when tb1_nil or tb2_nil raised ValueError
StrongCounters(tb1_nil, tb2_nil) ==
    IF Raised(tb1_nil) \/ Raised(tb2_nil) THEN {}
    ELSE IF ~(Ge(tb1_nil, StrongCutoff) \/ Ge(tb2_nil, StrongCutoff)) THEN {}
    ELSE {"positive_results_count",
          IF Ge(tb1_nil, StrongCutoff) /\ Ge(tb2_nil, StrongCutoff) THEN "both_tb_strong"
          ELSE IF Ge(tb1_nil, StrongCutoff) THEN "tb1_strong_only"
          ELSE "tb2_strong_only"}

\* the counters one pass of the loop body increments, given qft, the
\* characters of comment and the two values the strong check converts
LoopBody(qft, comment_chars, tb1_nil, tb2_nil) ==
    LET Has(sub) == Contains(sub, comment_chars)
    IN  IF qft \in {POS, POSSTAR}
            THEN IF Has(<<"W", "P">>)
                     THEN {"wp_total_count",
                           IF Has(<<"B", "o", "t", "h">>) THEN "wp_both"
                           ELSE IF Has(<<"T", "B", "1">>) THEN "wp_tb1_only"
                           ELSE IF Has(<<"T", "B", "2">>) THEN "wp_tb2_only"
                           ELSE "wp_total_count"}
                 ELSE StrongCounters(tb1_nil, tb2_nil)
        ELSE IF qft = NEG THEN {"negative_results_count"}
        ELSE IF qft = IND
            THEN {"indeterminate_results_count",
                  IF Has(<<"H", "i", "g", "h", " ", "N", "i", "l">>) THEN "high_nil_count"
                  ELSE IF Has(<<"L", "o", "w", " ", "M", "i", "t">>) THEN "low_mit_count"
                  ELSE "indeterminate_results_count"}
        ELSE {}

\* the counters the loop increments for the record res; total_samples is
\* len(all_results_for_summary), one for each record
Incremented(res) ==
    {"total_samples"}
    \cup LoopBody(QftResult(res), CommentChars(calculate_comment(res)),
                  SummaryNumField(res, "tb1_nil"), SummaryNumField(res, "tb2_nil"))

\* the records of a list
Records(results_list) == {results_list[i] : i \in 1..Len(results_list)}

\* the number of places of the list holding a record of the set matching
Count(results_list, matching) ==
    Cardinality({i \in 1..Len(results_list) : results_list[i] \in matching})

\* the counters after the passes of the loop body, a pass being the place
\* of a record in the list with the counters incremented for it
Totals(passes) ==
    [counter \in CounterNames |->
        Cardinality({pass \in passes : counter \in pass[2]})]

\* the counters after the loop over all_results_for_summary
SummaryTotals(all_results_for_summary) ==
    Totals({<<i, Incremented(all_results_for_summary[i])>> :
               i \in 1..Len(all_results_for_summary)})

\* no PDF was exported yet
NoSummary == [total_samples |-> -1]

-----------------------------------------------------------------------------
(* The sessions database.  The table sessions is a set of rows with the    *)
(* columns session_id and session_name (the two timestamp columns are left *)
(* out); the table results is kept as the list of stored rows of each      *)
(* session_id, in insertion order.  The foreign key of results is declared *)
(* ON DELETE CASCADE, and no connection executes PRAGMA foreign_keys = ON, *)
(* so SQLite does not enforce it.                                          *)

SessionIds == 1..MaxSessions

\* the names AutoSave_<time> and PreClearBackup_<time> of one moment
AutoSaveName == "AutoSave_20250101_120000"

PreClearName == "PreClearBackup_20250101_120000"

\* names a user types, and the two generated ones
SessionNames == {"A", "B", AutoSaveName, PreClearName}

\* imported_filename_source: '' at start, a file's base name after an
\* import, 'session <name>' after a manual save or a load
NoSource == [kind |-> "", name |-> ""]

FileSource == [kind |-> "file", name |-> "plate1"]

SessionSource(session_name) == [kind |-> "session", name |-> session_name]

\* the TEXT columns of results filled with str(row_dict.get(column, ''))
TextColumns ==
    {"barcode", "nil_result", "tb1_result", "tb2_result", "mit_result",
     "tb1_nil", "tb2_nil", "mit_nil", "qft_result"}

\* date_str with the datetime formatted as '%Y-%m-%d'
DateStr_dateonly(row_dict) ==
    LET req_date == Get(row_dict, "requested_date", None)
    IN  IF req_date.t = "None" THEN <<>> ELSE SubSeq(req_date.s, 1, 10)

\* date_str: the datetime formatted, else str(req_date or '')
DateStr(row_dict) ==
    LET req_date == Get(row_dict, "requested_date", None)
    IN  IF req_date.t = "None" THEN <<>> ELSE req_date.s

\* the tuple save_session inserts into results for a row
StoredRow(row_dict) ==
    [column \in TextColumns \cup {"requested_date"} |->
        IF column = "requested_date" THEN DateStr(row_dict)
        ELSE str(Get(row_dict, column, Str(<<>>)))]

\* SELECT session_id FROM sessions WHERE session_name = ?
SessionsNamed(session_name) == {s \in sessions : s.session_name = session_name}

\* the UNIQUE constraint on session_name never checked
NameTaken_never(session_id, new_name) == FALSE

\* the UNIQUE constraint on session_name: another row holds the name
NameTaken(session_id, new_name) ==
    \E s \in sessions : s.session_name = new_name /\ s.session_id # session_id

\* no database operation yet
NoOp == [op |-> "none"]

\* the name save_session saves under: session_name_in when given, else the
\* generated name of an automatic save or backup, else what the user typed at
\* the prompt ('' when the prompt was cancelled)
SaveName(auto_save, pre_clear, session_name_in, typed) ==
    IF session_name_in # "" THEN session_name_in
    ELSE IF auto_save THEN AutoSaveName
    ELSE IF pre_clear THEN PreClearName
    ELSE typed

\* save_session returning False before it touched the database
NotSaved(manual, session_name) ==
    [ok |-> FALSE, session_name |-> session_name, session_id |-> 0,
     manual |-> manual, overwrite |-> "not asked", db_error |-> FALSE,
     sessions |-> sessions, results |-> results,
     sqlite_sequence |-> sqlite_sequence,
     imported_filename_source |-> imported_filename_source]

\* the rows save_session writes for current_data, one for each record
StoredRows(data) == [i \in 1..Len(data) |-> StoredRow(data[i])]

\* an overwrite that keeps the old rows of the session
RowsKept_all(existing, session_id) == results[session_id]

\* the rows of the session left in results before the new ones are inserted:
\* DELETE FROM results WHERE session_id = ? removes those of an existing name
RowsKept(existing, session_id) ==
    IF existing # {} THEN <<>> ELSE results[session_id]

\* save_session from its SELECT on: the overwrite question of a manual save
\* to an existing name, the DELETE of the old results or the INSERT of the
\* session, the INSERT of a row for each record of current_data, the commit
\* and the new imported_filename_source; a declined overwrite and an error
\* of SQLite (rolled back) leave everything as it was
SaveUnder(manual, session_name, confirm_overwrite, db_error) ==
    LET existing   == SessionsNamed(session_name)
        session_id == IF existing # {} THEN (CHOOSE s \in existing : TRUE).session_id
                      ELSE sqlite_sequence + 1
        proceeds   == (existing # {} /\ manual) => confirm_overwrite
        saved      == proceeds /\ ~db_error
    IN  [ok |-> saved,
         session_name |-> session_name,
         session_id |-> IF saved THEN session_id ELSE 0,
         manual |-> manual,
         overwrite |-> IF existing # {} /\ manual
                           THEN (IF confirm_overwrite THEN "yes" ELSE "no")
                       ELSE "not asked",
         db_error |-> proceeds /\ db_error,
         sessions |-> IF saved
                          THEN sessions \cup {[session_id |-> session_id,
                                               session_name |-> session_name]}
                      ELSE sessions,
         results |-> IF saved
                         THEN [results EXCEPT ![session_id] =
                                  RowsKept(existing, session_id)
                                  \o StoredRows(current_data)]
                     ELSE results,
         sqlite_sequence |-> IF saved /\ existing = {} THEN session_id
                             ELSE sqlite_sequence,
         imported_filename_source |-> IF saved /\ manual
                                          THEN SessionSource(session_name)
                                      ELSE imported_filename_source]

\* save_session(auto_save, pre_clear, session_name_in), given what the user
\* types at the name prompt (typed, '' for Cancel), what the user answers to
\* the overwrite question, and whether SQLite raises an error (db_error):
\* what it returns (ok) and the database and source tracker it leaves
save_session(auto_save, pre_clear, session_name_in, typed, confirm_overwrite, db_error) ==
    IF \/ current_data = <<>>
       \/ SaveName(auto_save, pre_clear, session_name_in, typed) = ""
        THEN NotSaved(~auto_save /\ ~pre_clear,
                      SaveName(auto_save, pre_clear, session_name_in, typed))
    ELSE SaveUnder(~auto_save /\ ~pre_clear,
                   SaveName(auto_save, pre_clear, session_name_in, typed),
                   confirm_overwrite, db_error)

\* the manual order dialog is not open
NoDialog == [open |-> FALSE]

-----------------------------------------------------------------------------
(* The records of current_data: set_data_rows, add_data_rows and the rows  *)
(* load_selected_session reads back from the table results.                *)

\* required_keys of set_data_rows
RequiredKeys == TextColumns \cup {"requested_date"}

\* the text has the form '%Y-%m-%d %H:%M:%S' with two-digit fields
IsDbDate(chars) ==
    /\ Len(chars) = 19
    /\ \A i \in 1..19 :
          IF i \in {5, 8} THEN chars[i] = "-"
          ELSE IF i = 11 THEN chars[i] = " "
          ELSE IF i \in {14, 17} THEN chars[i] = ":"
          ELSE IsDigit(chars[i])

\* the text has the form '%d/%m/%Y %H:%M:%S' with two-digit fields
IsImportDate(chars) ==
    /\ Len(chars) = 19
    /\ \A i \in 1..19 :
          IF i \in {3, 6} THEN chars[i] = "/"
          ELSE IF i = 11 THEN chars[i] = " "
          ELSE IF i \in {14, 17} THEN chars[i] = ":"
          ELSE IsDigit(chars[i])

\* datetime.datetime.strptime(date_str, '%Y-%m-%d %H:%M:%S'), None standing
\* for the ValueError both callers turn into None
strptime(date_str) == IF IsDbDate(date_str) THEN Datetime(date_str) ELSE None

\* the date of set_data_rows and add_data_rows: a datetime is kept, a string
\* is parsed in the database format, then in the import format, and
\* anything else is None
ParsedDate(date_val) ==
    IF date_val.t = "datetime" THEN date_val
    ELSE IF date_val.t = "str" /\ IsDbDate(date_val.s) THEN Datetime(date_val.s)
    ELSE IF date_val.t = "str" /\ IsImportDate(date_val.s)
        THEN Datetime(SubSeq(date_val.s, 7, 10) \o <<"-">> \o SubSeq(date_val.s, 4, 5)
                      \o <<"-">> \o SubSeq(date_val.s, 1, 2) \o SubSeq(date_val.s, 11, 19))
    ELSE None

\* processed_row of set_data_rows for one row
ProcessedRow(row) ==
    [key \in RequiredKeys |->
        IF key = "requested_date"
            THEN ParsedDate(Get(row, "requested_date", Get(row, "RequestedDate", None)))
        ELSE IF key = "barcode"
            THEN Str(str(Get(row, "barcode", Get(row, "Barcode", Str(<<>>)))))
        ELSE Str(str(Get(row, key, Str(<<>>))))]

\* the list set_data_rows assigns to current_data
set_data_rows(list_of_dicts) ==
    [i \in 1..Len(list_of_dicts) |-> ProcessedRow(list_of_dicts[i])]

\* a row as add_data_rows appends it: its own keys, converted with str, and
\* requested_date parsed
AddedRow(row) ==
    [key \in DOMAIN row \cup {"requested_date"} |->
        IF key = "requested_date"
            THEN ParsedDate(Get(row, "requested_date", Get(row, "RequestedDate", None)))
        ELSE Str(str(row[key]))]

\* current_data after add_data_rows
add_data_rows(data, list_of_dicts) ==
    data \o [i \in 1..Len(list_of_dicts) |-> AddedRow(list_of_dicts[i])]

\* get_all_barcodes, as the set import_data makes of it
existing_barcodes(data) ==
    {str(Get(data[i], "barcode", Str(<<>>))) : i \in 1..Len(data)}

\* new_rows of import_data: the rows of the file whose barcode is not among
\* the loaded ones
new_rows(data, data_to_set_or_add) ==
    SelectSeq(data_to_set_or_add,
              LAMBDA row : str(Get(row, "barcode", Str(<<>>))) \notin existing_barcodes(data))

\* row_dict of load_selected_session for a row of results: the text columns
\* as stored, the date parsed back, None when it is empty or does not parse
LoadedRow(stored) ==
    [key \in DOMAIN stored |->
        IF key = "requested_date"
            THEN (IF stored[key] # <<>> THEN strptime(stored[key]) ELSE None)
        ELSE Str(stored[key])]

\* loaded_rows: SELECT ... FROM results WHERE session_id = ?
loaded_rows(results_table, session_id) ==
    [i \in 1..Len(results_table[session_id]) |-> LoadedRow(results_table[session_id][i])]

\* the answers to "save the current session first?": Yes, No, Cancel
Answers == {"yes", "no", "cancel"}

\* the answers a handler can get: the question is asked only with data loaded
AnswersIf(asked) == IF asked THEN Answers ELSE {"not asked"}

\* self.imported_filename_source.startswith(prefix): the tracker reads
\* 'session <name>' after a save or a load; the file names and session names
\* of the model begin with neither 'session ' nor 'Session '
StartsWith(source, prefix) == source.kind = "session" /\ prefix = "session "

\* current_session_name of clear_data (prefix 'Session ') and of on_closing
\* (prefix 'session '): the tracker without the prefix, None ('') without it
current_session_name(prefix) ==
    IF StartsWith(imported_filename_source, prefix) THEN imported_filename_source.name
    ELSE ""

\* the save a handler makes when the answer is Yes: save_session(
\* auto_save=False, session_name_in=...); no save for another answer
SaveFirst(answer, session_name_in, typed, confirm_overwrite, db_error) ==
    IF answer = "yes"
        THEN save_session(FALSE, FALSE, session_name_in, typed, confirm_overwrite, db_error)
    ELSE NotSaved(TRUE, "")

\* a handler that returns early only on Cancel
Aborted_on_cancel(answer, outcome) == answer = "cancel"

\* the handler returns before doing its work: Cancel, or Yes and
\* save_session returned False
Aborted(answer, outcome) == answer = "cancel" \/ (answer = "yes" /\ ~outcome.ok)

-----------------------------------------------------------------------------
(* sort_data: the key sort_func gives each record, and list.sort on these  *)
(* keys.  A key is a float (only inf and -inf occur), an int, a str or a   *)
(* datetime; Python orders ints with floats, strs with strs and datetimes  *)
(* with datetimes, and raises TypeError for any other pair.                *)

\* the options of the sort dropdown with a column: sort_column, direction
sort_options ==
    ("Date (Oldest First)" :> <<"requested_date", "asc">>)
    @@ ("Date (Newest First)" :> <<"requested_date", "desc">>)
    @@ ("Sample ID (A-Z)" :> <<"barcode", "asc">>)
    @@ ("Sample ID (Z-A)" :> <<"barcode", "desc">>)
    @@ ("QFT Result (A-Z)" :> <<"qft_result", "asc">>)
    @@ ("QFT Result (Z-A)" :> <<"qft_result", "desc">>)

ManualOrder == "Manual Order"

\* the characters of the model's strings in the order of their code points
CodePoints ==
    <<" ", "*", "+", "-", ".", "/", "0", "1", "2", "3", "4", "5", "6", "7", "8",
      "9", ":", "<", ">">> \o UpperLetters \o <<"_">> \o LowerLetters

Ord(c) == CHOOSE i \in 1..Len(CodePoints) : CodePoints[i] = c

\* a < b on strings: the first place where they differ decides, and a proper
\* prefix is smaller
StrLt(a, b) ==
    \E i \in 1..Len(b) :
        /\ i <= Len(a) + 1
        /\ \A j \in 1..(i - 1) : a[j] = b[j]
        /\ i = Len(a) + 1 \/ Ord(a[i]) < Ord(b[i])

FloatKey(sign) == [type |-> "float", n |-> sign, s |-> <<>>]

IntKey(n) == [type |-> "int", n |-> n, s |-> <<>>]

StrKey(chars) == [type |-> "str", n |-> 0, s |-> chars]

DatetimeKey(chars) == [type |-> "datetime", n |-> 0, s |-> chars]

\* datetime.datetime.max and datetime.datetime.min, to the second
DatetimeMax ==
    <<"9", "9", "9", "9", "-", "1", "2", "-", "3", "1", " ",
      "2", "3", ":", "5", "9", ":", "5", "9">>

DatetimeMin ==
    <<"0", "0", "0", "1", "-", "0", "1", "-", "0", "1", " ",
      "0", "0", ":", "0", "0", ":", "0", "0">>

\* order = {'POS*': 0, 'POS': 1, 'IND': 2, 'NEG': 3}; order.get(..., 99)
QftOrder(chars) ==
    IF chars = POSSTAR THEN 0
    ELSE IF chars = POS THEN 1
    ELSE IF chars = IND THEN 2
    ELSE IF chars = NEG THEN 3
    ELSE 99

\* value is None or (isinstance(value, str) and value.strip() == '')
IsMissing(value) == value.t = "None" \/ (value.t = "str" /\ strip(value.s) = <<>>)

\* float('inf') if not reverse_order else float('-inf')
MissingKey(reverse_order) == FloatKey(IF reverse_order THEN -1 ELSE 1)

\* sort_func(row_dict) for the columns the dropdown offers (the numeric
\* branch of the function serves no option)
sort_func(row_dict, sort_column, reverse_order) ==
    IF IsMissing(Get(row_dict, sort_column, None)) THEN MissingKey(reverse_order)
    ELSE IF sort_column = "requested_date"
        THEN IF Get(row_dict, sort_column, None).t = "datetime"
                 THEN DatetimeKey(Get(row_dict, sort_column, None).s)
             ELSE DatetimeKey(IF reverse_order THEN DatetimeMin ELSE DatetimeMax)
    ELSE IF sort_column = "barcode"
        THEN StrKey(str(Get(row_dict, sort_column, None)))
    ELSE IntKey(QftOrder(upper(str(Get(row_dict, sort_column, None)))))

IsNumberKey(x) == x.type \in {"int", "float"}

\* x < y is defined
Comparable(x, y) == (IsNumberKey(x) /\ IsNumberKey(y)) \/ x.type = y.type

\* x < y on comparable keys
KeyLt(x, y) ==
    IF IsNumberKey(x)
        THEN IF x.type = "float" /\ y.type = "float" THEN x.n < y.n
             ELSE IF x.type = "float" THEN x.n < 0
             ELSE IF y.type = "float" THEN y.n > 0
             ELSE x.n < y.n
    ELSE StrLt(x.s, y.s)

\* list.sort raises TypeError: two of the keys cannot be compared
SortRaises(keys) ==
    \E i, j \in 1..Len(keys) : ~Comparable(keys[i], keys[j])

\* the place list.sort gives the element at index i: the sort is stable, and
\* with reverse the keys descend while equal keys keep their order
PlaceOf(keys, reverse_order, i) ==
    1 + Cardinality({j \in 1..Len(keys) :
                        \/ IF reverse_order THEN KeyLt(keys[i], keys[j])
                           ELSE KeyLt(keys[j], keys[i])
                        \/ /\ j < i
                           /\ ~KeyLt(keys[i], keys[j])
                           /\ ~KeyLt(keys[j], keys[i])})

\* the list ordered by keys that can be compared
SortedBy(data, keys, reverse_order) ==
    [place \in 1..Len(data) |->
        data[CHOOSE i \in 1..Len(data) : PlaceOf(keys, reverse_order, i) = place]]

\* every order of the list
Reorderings(data) ==
    {[i \in 1..Len(data) |-> data[order[i]]] : order \in Permutations(1..Len(data))}

\* list.sort that drops the elements with a missing value
ListSort_dropping(data, sort_column, reverse_order) ==
    {SelectSeq(data, LAMBDA row_dict : ~IsMissing(Get(row_dict, sort_column, None)))}

\* self.current_data.sort(key=sort_func, reverse=reverse_order): the lists
\* it can leave.  When a comparison raises, the list is left in some order
\* of its elements, which one is not specified.
ListSort(data, sort_column, reverse_order) ==
    IF SortRaises([i \in 1..Len(data) |-> sort_func(data[i], sort_column, reverse_order)])
        THEN Reorderings(data)
    ELSE {SortedBy(data,
                   [i \in 1..Len(data) |-> sort_func(data[i], sort_column, reverse_order)],
                   reverse_order)}

\* the sort raised, and sort_data showed "Could not sort data"
SortFails(data, sort_key_display) ==
    /\ data # <<>>
    /\ sort_key_display \in DOMAIN sort_options
    /\ SortRaises([i \in 1..Len(data) |->
                      sort_func(data[i], sort_options[sort_key_display][1],
                                sort_options[sort_key_display][2] = "desc")])

\* sort_data(): the values it can leave in current_data
sort_data(data, sort_key_display) ==
    IF data = <<>> \/ sort_key_display \notin DOMAIN sort_options THEN {data}
    ELSE ListSort(data, sort_options[sort_key_display][1],
                  sort_options[sort_key_display][2] = "desc")

-----------------------------------------------------------------------------
(* The rows calculate_comment is applied to.  Every value of a row that    *)
(* set_data_rows stored is a string (str(None) is 'None'); the rows built  *)
(* from database records and search results may hold None or lack a key.   *)

\* values of qft_result
QftInputs ==
    {Str(<<"P", "O", "S">>),
     Str(<<"P", "O", "S", "*">>),
     Str(<<"p", "o", "s">>),
     Str(<<"N", "E", "G">>),
     Str(<<"I", "N", "D">>),
     Str(<<"i", "n", "d">>),
     Absent,
     Str(<<"X", "Y", "Z">>)}

\* values of nil_result
NilInputs ==
    {Absent,
     Str(<<" ">>),
     Str(<<"8", ".", "0">>),
     Str(<<"8", ".", "0", "1">>),
     Str(<<">", "1", "0">>),
     Str(<<"a", "b", "c">>)}

\* values of tb1_nil
Tb1Inputs ==
    {Absent,
     None,
     Str(<<"0", ".", "3", "4">>),
     Str(<<"0", ".", "3", "5">>),
     Str(<<"0", ".", "9", "9">>),
     Str(<<"1", ".", "0">>),
     Str(<<"-", "0", ".", "2">>),
     Str(<<" ", "<", "0", ".", "3", "5", " ">>),
     Str(<<"1", ">", "0">>),
     Str(<<"n", "a", "n">>)}

\* values of tb2_nil
Tb2Inputs ==
    {Absent,
     Str(<<"<">>),
     Str(<<"0", ".", "2">>),
     Str(<<"0", ".", "3", "5">>),
     Str(<<".", "5">>),
     Str(<<"1">>),
     Str(<<">", " ", "1", ".", "5">>),
     Str(<<"0", ".", "5", "<">>),
     Str(<<"a", "b", "c">>)}

\* values of mit_nil
MitInputs ==
    {Absent,
     Str(<<>>),
     Str(<<"0", ".", "4", "9">>),
     Str(<<"0", ".", "5">>),
     Str(<<">", " ", "1", "0">>),
     Str(<<"5", "e", "-", "1", "x">>)}

\* the dictionary holding the keys of fields whose value is not Absent
MkRow(fields) == [key \in {k \in DOMAIN fields : fields[k] # Absent} |-> fields[key]]

\* the rows of the batch specification: one of each kind of comment
BatchRows ==
    {MkRow([qft_result |-> q[1], nil_result |-> q[2], tb1_nil |-> q[3],
            tb2_nil |-> q[4], mit_nil |-> q[5]]) :
        q \in {<<Str(POS), Absent, Str(<<"0", ".", "3", "5">>), Str(<<".", "5">>), Absent>>,
               <<Str(<<"N", "E", "G">>), Str(<<"8", ".", "0", "1">>), Absent, Absent, Absent>>,
               <<Str(IND), Str(<<">", "1", "0">>), Absent, Absent, Str(<<>>)>>,
               <<Str(IND), Str(<<" ">>), Absent, Absent, Str(<<>>)>>,
               <<Str(<<"N", "E", "G">>), Absent, None, Absent, Absent>>}}

\* field values handed to format_number_with_decimals
ValueInputs ==
    {Str(<<>>),
     Str(<<" ">>),
     Str(<<" ", " ">>),
     Str(<<"\t", " ", "\n">>),
     None,
     Str(<<">", "1", "0", ".", "0">>),
     Str(<<" ", ">", "1", "0">>),
     Str(<<"<", "0", ".", "3", "5">>),
     Str(<<"0", ".", "5", "<">>),
     Str(<<"1", "0", ".", "0">>),
     Str(<<"1", "0">>),
     Str(<<"1", "0", ".", "2", "5", "6">>),
     Str(<<"1", "0", ".", "5">>),
     Str(<<" ", "1", "0", ".", "5", " ">>),
     Str(<<" ", "7", ".", "0">>),
     Str(<<"0", ".", "1", "2", "5">>),
     Str(<<"2", ".", "6", "7", "5">>),
     Str(<<"2", ".", "5">>),
     Str(<<"9", ".", "9", "9", "9", "6">>),
     Str(<<"-", "0", ".", "0">>),
     Str(<<"-", "0", ".", "0", "4">>),
     Str(<<"-", "3", ".", "0">>),
     Str(<<"1", "e", "2">>),
     Str(<<"a", "b", "c">>),
     Str(<<" ", "N", "/", "A", " ">>),
     Str(<<"i", "n", "f">>),
     Str(<<"-", "I", "n", "f", "i", "n", "i", "t", "y">>),
     Str(<<"n", "a", "n">>)}

\* values of app_settings['decimal_places']: the five of the Decimals menu,
\* and values only an edited settings file holds
DecimalsInputs ==
    {DefaultSetting,
     Str(<<"0">>),
     Str(<<"1">>),
     Str(<<"2">>),
     Str(<<"3">>),
     Str(<<"-", "1">>),
     Str(<<"a", "b", "c">>),
     None}

\* the rows of the summary specification: a strong positive, a positive
\* with both TB values under the weak range, both TB values strong, two
\* weak positives, a positive whose nil_result does not convert, a
\* negative, and the two flagged indeterminates
SummaryRows ==
    {MkRow([qft_result |-> q[1], nil_result |-> q[2], tb1_nil |-> q[3],
            tb2_nil |-> q[4], mit_nil |-> q[5]]) :
        q \in {<<Str(POS), Absent, Str(<<"1", ".", "0">>), Absent, Absent>>,
               <<Str(POS), Absent, Str(<<"0", ".", "3", "4">>), Str(<<"0", ".", "2">>), Absent>>,
               <<Str(<<"p", "o", "s">>), Absent, Str(<<"1", ".", "0">>), Str(<<"1">>), Absent>>,
               <<Str(POSSTAR), Absent, Str(<<"0", ".", "3", "5">>), Str(<<".", "5">>), Absent>>,
               <<Str(POS), Absent, Str(<<"-", "0", ".", "2">>), Str(<<"0", ".", "3", "5">>), Absent>>,
               <<Str(POS), Str(<<"a", "b", "c">>), Str(<<"1", ".", "0">>), Absent, Absent>>,
               <<Str(NEG), Absent, Absent, Absent, Absent>>,
               <<Str(IND), Str(<<">", "1", "0">>), Absent, Absent, Str(<<>>)>>,
               <<Str(IND), Str(<<" ">>), Absent, Absent, Str(<<>>)>>}}

\* a record of current_data as set_data_rows and add_data_rows leave it: the
\* ten keys, every value a string but requested_date, a datetime or None
Record(barcode, qft_result, nil_result, tb1_nil, requested_date) ==
    [barcode        |-> Str(barcode),
     nil_result     |-> Str(nil_result),
     tb1_result     |-> Str(<<"1", ".", "2">>),
     tb2_result     |-> Str(<<"0", ".", "3">>),
     mit_result     |-> Str(<<">", "1", "0">>),
     tb1_nil        |-> Str(tb1_nil),
     tb2_nil        |-> Str(<<"0", ".", "2">>),
     mit_nil        |-> Str(<<"9", ".", "9">>),
     qft_result     |-> Str(qft_result),
     requested_date |-> requested_date]

\* 2025-01-02 08:30:00
Date1 ==
    Datetime(<<"2", "0", "2", "5", "-", "0", "1", "-", "0", "2", " ",
               "0", "8", ":", "3", "0", ":", "0", "0">>)

\* 2024-12-31 23:59:59
Date2 ==
    Datetime(<<"2", "0", "2", "4", "-", "1", "2", "-", "3", "1", " ",
               "2", "3", ":", "5", "9", ":", "5", "9">>)

\* two records of loaded data, the second without a date
SessionRows ==
    <<Record(<<"1", "0", "0", "1">>, POS, <<"0", ".", "1">>, <<"0", ".", "5">>, Date1),
      Record(<<"1", "0", "0", "2">>, NEG, <<" ">>, <<"0", ".", "0", "5">>, None)>>

\* data_to_set_or_add for the file of the model: two rows sharing a barcode
Files ==
    {<<Record(<<"1", "0", "0", "4">>, POS, <<"0", ".", "1">>, <<"0", ".", "5">>, Date2),
       Record(<<"1", "0", "0", "4">>, NEG, <<"0", ".", "1">>, <<"0">>, Date1)>>}

\* the records of the sort specification: two dated records, a record with
\* blank barcode and qft_result and no date, a record sharing barcode and
\* date with others, and an undated record with an unknown qft_result
SortRows ==
    {Record(<<"1", "0", "0", "2">>, POS, <<"0", ".", "1">>, <<"1", ".", "0">>, Date1),
     Record(<<"1", "0", "0", "1">>, NEG, <<"0", ".", "1">>, <<"0", ".", "1">>, Date2),
     Record(<<" ">>, <<" ">>, <<" ">>, <<" ">>, None),
     Record(<<"1", "0", "0", "1">>, <<"i", "n", "d">>, <<"8", ".", "5">>, <<"0">>, Date1),
     Record(<<"A", "7">>, <<"X", "Y", "Z">>, <<"0", ".", "1">>, <<"0">>, None)}

\* the lists of 1..n rows of a set
RECURSIVE RowLists(_, _)
RowLists(rows, n) ==
    IF n = 0 THEN {}
    ELSE {<<r>> : r \in rows}
         \cup {Append(l, r) : l \in RowLists(rows, n - 1), r \in rows}

\* the lists of 1..n different rows of a set
DistinctLists(rows, n) ==
    {l \in RowLists(rows, n) : \A i, j \in 1..Len(l) : l[i] = l[j] => i = j}

-----------------------------------------------------------------------------
(* Specifications *)

\* an empty database, no file imported
DatabaseIdle ==
    /\ sessions = {}
    /\ results = [session_id \in SessionIds |-> <<>>]
    /\ sqlite_sequence = 0
    /\ imported_filename_source = NoSource
    /\ last_op = NoOp

\* the main window as create_widgets leaves it, no dialog open
WindowIdle ==
    /\ sort_var = "Date (Oldest First)"
    /\ order_dialog = NoDialog
    /\ destroyed = FALSE

\* no value is being formatted
FormatterIdle ==
    /\ raw_value = Str(<<>>)
    /\ decimal_places = DefaultSetting
    /\ display_value = NotFormatted

\* no row is being classified
ClassifierIdle ==
    /\ current_data = <<>>
    /\ comment = NoComment
    /\ calls = {}

\* one row, its fields drawn from the input sets
Init ==
    /\ \E q \in QftInputs, n \in NilInputs, t1 \in Tb1Inputs,
          t2 \in Tb2Inputs, m \in MitInputs :
          current_data = <<MkRow([qft_result |-> q, nil_result |-> n,
                                  tb1_nil |-> t1, tb2_nil |-> t2, mit_nil |-> m])>>
    /\ comment = NoComment
    /\ calls = {}
    /\ FormatterIdle
    /\ summary = NoSummary
    /\ DatabaseIdle
    /\ WindowIdle

\* a list of rows, as an import or a loaded session leaves it
InitBatch ==
    /\ current_data \in RowLists(BatchRows, MaxRows)
    /\ comment = NoComment
    /\ calls = {}
    /\ FormatterIdle
    /\ summary = NoSummary
    /\ DatabaseIdle
    /\ WindowIdle

\* comment = calculate_comment(row_dict), for the row at index i: the call
\* refresh_display, the exports and the search make for each row.  The
\* function reads its argument with get and assigns only to its locals.
CallCalculateComment(i) ==
    /\ current_data' = current_data
    /\ comment' = calculate_comment(current_data[i])
    /\ calls' = calls \cup {[index  |-> i,
                            before |-> current_data,
                            after  |-> current_data',
                            result |-> comment']}
    /\ UNCHANGED <<formatter_vars, summary, database_vars, window_vars>>

Next == \E i \in 1..Len(current_data) : CallCalculateComment(i)

Spec == Init /\ [][Next]_vars

SpecBatch == InitBatch /\ [][Next]_vars

\* one field value and one decimals setting
InitFormat ==
    /\ raw_value \in ValueInputs
    /\ decimal_places \in DecimalsInputs
    /\ display_value = NotFormatted
    /\ ClassifierIdle
    /\ summary = NoSummary
    /\ DatabaseIdle
    /\ WindowIdle

\* display_value = format_number_with_decimals(raw_value, decimals): the
\* call the table, the exports and the print view make for each numeric field
CallFormatNumber ==
    /\ display_value' \in format_number_with_decimals(raw_value, decimal_places)
    /\ UNCHANGED <<raw_value, decimal_places, classifier_vars, summary, database_vars,
                   window_vars>>

NextFormat == CallFormatNumber

SpecFormat == InitFormat /\ [][NextFormat]_vars

\* a list of rows to export
InitSummary ==
    /\ \E n \in 1..MaxRows : current_data \in [1..n -> SummaryRows]
    /\ comment = NoComment
    /\ calls = {}
    /\ FormatterIdle
    /\ summary = NoSummary
    /\ DatabaseIdle
    /\ WindowIdle

\* export_to_pdf, as far as the summary page: nothing is exported without
\* data; the totals are computed from the list get_data_for_export returns,
\* which is current_data
ExportToPdf ==
    /\ current_data # <<>>
    /\ summary' = SummaryTotals(current_data)
    /\ UNCHANGED <<classifier_vars, formatter_vars, database_vars, window_vars>>

NextSummary == ExportToPdf

SpecSummary == InitSummary /\ [][NextSummary]_vars

\* an empty database; no data, or one or two rows imported from a file
InitSessions ==
    /\ current_data \in {<<>>, <<SessionRows[1]>>, SessionRows}
    /\ comment = NoComment
    /\ calls = {}
    /\ FormatterIdle
    /\ summary = NoSummary
    /\ sessions = {}
    /\ results = [session_id \in SessionIds |-> <<>>]
    /\ sqlite_sequence = 0
    /\ imported_filename_source = IF current_data = <<>> THEN NoSource ELSE FileSource
    /\ last_op = NoOp
    /\ WindowIdle

\* the tables as a save left them
TablesAfter(outcome) ==
    /\ sessions' = outcome.sessions
    /\ results' = outcome.results
    /\ sqlite_sequence' = outcome.sqlite_sequence

\* the operation op recorded with the outcome of its save_session
Recorded(op, outcome) ==
    [op |-> op, session_name |-> outcome.session_name,
     session_id |-> outcome.session_id,
     ok |-> outcome.ok, manual |-> outcome.manual,
     overwrite |-> outcome.overwrite, db_error |-> outcome.db_error]

\* the Save Session command and the automatic saves: save_session called
\* from the main window
SaveSession(auto_save, pre_clear, session_name_in, typed, confirm_overwrite, db_error) ==
    /\ ~destroyed /\ ~order_dialog.open
    /\ save_session(auto_save, pre_clear, session_name_in, typed,
                    confirm_overwrite, db_error).sqlite_sequence <= MaxSessions
    /\ last_op' = Recorded("save", save_session(auto_save, pre_clear, session_name_in,
                                                typed, confirm_overwrite, db_error))
    /\ TablesAfter(save_session(auto_save, pre_clear, session_name_in, typed,
                                confirm_overwrite, db_error))
    /\ imported_filename_source' =
          save_session(auto_save, pre_clear, session_name_in, typed,
                       confirm_overwrite, db_error).imported_filename_source
    /\ UNCHANGED <<classifier_vars, formatter_vars, summary, window_vars>>

\* rename_selected_session for the session selected in the sessions window,
\* given what the user types at the name prompt ('' for Cancel)
RenameSelectedSession(session_id, new_name) ==
    \E selected \in sessions :
        /\ ~destroyed /\ ~order_dialog.open
        /\ selected.session_id = session_id
        /\ LET asked    == new_name # "" /\ new_name # selected.session_name
               rejected == asked /\ NameTaken(session_id, new_name)
           IN  /\ last_op' = [op |-> "rename", session_name |-> new_name,
                              session_id |-> session_id,
                              sessions_before |-> sessions,
                              results_before |-> results,
                              ok |-> asked /\ ~rejected]
               /\ sessions' =
                     IF asked /\ ~rejected
                         THEN (sessions \ {selected})
                              \cup {[session_id |-> session_id, session_name |-> new_name]}
                     ELSE sessions
        /\ UNCHANGED <<results, sqlite_sequence, imported_filename_source,
                       classifier_vars, formatter_vars, summary, window_vars>>

\* delete_selected_session for the session selected in the sessions window,
\* given the user's answer to the confirmation
DeleteSelectedSession(session_id, confirm) ==
    \E selected \in sessions :
        /\ ~destroyed /\ ~order_dialog.open
        /\ selected.session_id = session_id
        /\ last_op' = [op |-> "delete", session_name |-> selected.session_name,
                       session_id |-> session_id, ok |-> confirm]
        /\ sessions' = IF confirm THEN sessions \ {selected} ELSE sessions
        /\ UNCHANGED <<results, sqlite_sequence, imported_filename_source,
                       classifier_vars, formatter_vars, summary, window_vars>>

\* what the name prompt of save_session can return: it is shown only for a
\* manual save without session_name_in
Prompted(auto_save, pre_clear, session_name_in) ==
    IF ~auto_save /\ ~pre_clear /\ session_name_in = ""
        THEN SessionNames \cup {""}
    ELSE {""}

NextSessions ==
    \/ \E auto_save, pre_clear \in BOOLEAN, session_name_in \in SessionNames \cup {""} :
          \E typed \in Prompted(auto_save, pre_clear, session_name_in),
             confirm_overwrite, db_error \in BOOLEAN :
             SaveSession(auto_save, pre_clear, session_name_in, typed,
                         confirm_overwrite, db_error)
    \/ \E session_id \in SessionIds, new_name \in SessionNames \cup {""} :
          RenameSelectedSession(session_id, new_name)
    \/ \E session_id \in SessionIds, confirm \in BOOLEAN :
          DeleteSelectedSession(session_id, confirm)

SpecSessions == InitSessions /\ [][NextSessions]_vars

\* a handler that asks "save first?" recorded: the answer, the
\* session_name_in it passed, the save it made and whether it returned early
Handled(op, answer, session_name_in, outcome) ==
    [op |-> op, answer |-> answer, session_name_in |-> session_name_in,
     save |-> Recorded("save", outcome),
     aborted |-> Aborted(answer, outcome)]

\* import_data after the question: the file dialog gave file (<<>> when it
\* was cancelled or nothing could be read), outcome is the save made first
Importing(add_mode, answer, data_to_set_or_add, outcome) ==
    /\ outcome.sqlite_sequence <= MaxSessions
    /\ last_op' = Handled(IF add_mode THEN "add" ELSE "import", answer, "", outcome)
    /\ TablesAfter(outcome)
    /\ IF Aborted(answer, outcome) \/ data_to_set_or_add = <<>>
          THEN /\ current_data' = current_data
               /\ imported_filename_source' = outcome.imported_filename_source
       ELSE IF add_mode
          THEN /\ Len(current_data) + Len(new_rows(current_data, data_to_set_or_add))
                     <= MaxRows
               /\ IF new_rows(current_data, data_to_set_or_add) = <<>>
                     THEN current_data' = current_data
                  ELSE current_data' \in
                          sort_data(add_data_rows(current_data,
                                                  new_rows(current_data, data_to_set_or_add)),
                                    sort_var)
               /\ imported_filename_source' = outcome.imported_filename_source
       ELSE /\ current_data' \in sort_data(set_data_rows(data_to_set_or_add), sort_var)
            /\ imported_filename_source' = FileSource
    /\ UNCHANGED <<comment, calls, formatter_vars, summary, window_vars>>

\* import_data(add_mode): Import Data (replace) and Add Data
ImportData(add_mode, answer, typed, confirm_overwrite, db_error, data_to_set_or_add) ==
    /\ ~destroyed /\ ~order_dialog.open
    /\ answer \in AnswersIf(~add_mode /\ current_data # <<>>)
    /\ Importing(add_mode, answer, data_to_set_or_add,
                 SaveFirst(answer, "", typed, confirm_overwrite, db_error))

\* load_selected_session after the question, for the selected session
Loading(selected, answer, outcome) ==
    /\ outcome.sqlite_sequence <= MaxSessions
    /\ last_op' = Handled("load", answer, "", outcome)
                      @@ [loaded |-> selected]
    /\ TablesAfter(outcome)
    /\ IF Aborted(answer, outcome)
          THEN /\ current_data' = current_data
               /\ imported_filename_source' = outcome.imported_filename_source
       ELSE /\ current_data' \in
                  sort_data(set_data_rows(loaded_rows(outcome.results, selected.session_id)),
                            sort_var)
            /\ imported_filename_source' = SessionSource(selected.session_name)
    /\ UNCHANGED <<comment, calls, formatter_vars, summary, window_vars>>

\* load_selected_session for the session selected in the sessions window
LoadSelectedSession(session_id, answer, typed, confirm_overwrite, db_error) ==
    \E selected \in sessions :
        /\ ~destroyed /\ ~order_dialog.open
        /\ selected.session_id = session_id
        /\ answer \in AnswersIf(current_data # <<>>)
        /\ Loading(selected, answer,
                   SaveFirst(answer, "", typed, confirm_overwrite, db_error))

\* clear_data after the question
Clearing(answer, session_name_in, outcome) ==
    /\ outcome.sqlite_sequence <= MaxSessions
    /\ last_op' = Handled("clear", answer, session_name_in, outcome)
    /\ TablesAfter(outcome)
    /\ IF Aborted(answer, outcome)
          THEN /\ current_data' = current_data
               /\ imported_filename_source' = outcome.imported_filename_source
               /\ sort_var' = sort_var
       ELSE /\ current_data' = <<>>
            /\ imported_filename_source' = NoSource
            /\ sort_var' = "Date (Oldest First)"
    /\ UNCHANGED <<comment, calls, formatter_vars, summary, order_dialog, destroyed>>

\* clear_data: it looks for the prefix 'Session ' in the source tracker
ClearData(answer, typed, confirm_overwrite, db_error) ==
    /\ ~destroyed /\ ~order_dialog.open
    /\ current_data # <<>>
    /\ answer \in Answers
    /\ Clearing(answer, current_session_name("Session "),
                SaveFirst(answer, current_session_name("Session "), typed,
                          confirm_overwrite, db_error))

\* on_closing after the question
Closing(answer, session_name_in, outcome) ==
    /\ outcome.sqlite_sequence <= MaxSessions
    /\ last_op' = Handled("close", answer, session_name_in, outcome)
    /\ TablesAfter(outcome)
    /\ imported_filename_source' = outcome.imported_filename_source
    /\ destroyed' = ~Aborted(answer, outcome)
    /\ UNCHANGED <<classifier_vars, formatter_vars, summary, sort_var, order_dialog>>

\* on_closing: it looks for the prefix 'session ' in the source tracker
OnClosing(answer, typed, confirm_overwrite, db_error) ==
    /\ ~destroyed /\ ~order_dialog.open
    /\ answer \in AnswersIf(current_data # <<>>)
    /\ Closing(answer, current_session_name("session "),
               SaveFirst(answer, current_session_name("session "), typed,
                         confirm_overwrite, db_error))

\* what the user can type and answer in a handler that got answer: the name
\* prompt appears only for Yes without session_name_in, the other inputs
\* matter only for Yes
TypedIf(answer, session_name_in) ==
    IF answer = "yes" /\ session_name_in = "" THEN {"", "A"} ELSE {""}

ChoicesIf(answer) == IF answer = "yes" THEN BOOLEAN ELSE {FALSE}

NextApp ==
    \/ \E confirm_overwrite, db_error \in BOOLEAN :
          SaveSession(FALSE, FALSE, "", "A", confirm_overwrite, db_error)
    \/ \E add_mode \in BOOLEAN, answer \in Answers \cup {"not asked"},
          data_to_set_or_add \in Files \cup {<<>>} :
          \E typed \in TypedIf(answer, ""),
             confirm_overwrite, db_error \in ChoicesIf(answer) :
             ImportData(add_mode, answer, typed, confirm_overwrite, db_error,
                        data_to_set_or_add)
    \/ \E session_id \in SessionIds, answer \in Answers \cup {"not asked"} :
          \E typed \in TypedIf(answer, ""),
             confirm_overwrite, db_error \in ChoicesIf(answer) :
             LoadSelectedSession(session_id, answer, typed, confirm_overwrite, db_error)
    \/ \E answer \in Answers :
          \E typed \in TypedIf(answer, current_session_name("Session ")),
             confirm_overwrite, db_error \in ChoicesIf(answer) :
             ClearData(answer, typed, confirm_overwrite, db_error)
    \/ \E answer \in Answers \cup {"not asked"} :
          \E typed \in TypedIf(answer, current_session_name("session ")),
             confirm_overwrite, db_error \in ChoicesIf(answer) :
             OnClosing(answer, typed, confirm_overwrite, db_error)

\* an empty database; no data, or one record imported from a file, with or
\* without a date
InitApp ==
    /\ current_data \in {<<>>, <<SessionRows[1]>>, <<SessionRows[2]>>}
    /\ comment = NoComment
    /\ calls = {}
    /\ FormatterIdle
    /\ summary = NoSummary
    /\ sessions = {}
    /\ results = [session_id \in SessionIds |-> <<>>]
    /\ sqlite_sequence = 0
    /\ imported_filename_source = IF current_data = <<>> THEN NoSource ELSE FileSource
    /\ last_op = NoOp
    /\ WindowIdle

SpecApp == InitApp /\ [][NextApp]_vars

\* records in an order the user gave them, "Manual Order" in the dropdown
InitSort ==
    /\ current_data \in DistinctLists(SortRows, MaxRows)
    /\ comment = NoComment
    /\ calls = {}
    /\ FormatterIdle
    /\ summary = NoSummary
    /\ sessions = {}
    /\ results = [session_id \in SessionIds |-> <<>>]
    /\ sqlite_sequence = 0
    /\ imported_filename_source = FileSource
    /\ last_op = NoOp
    /\ sort_var = ManualOrder
    /\ order_dialog = NoDialog
    /\ destroyed = FALSE

\* an option is selected in the sort dropdown: the combobox sets sort_var and
\* calls sort_data
SortData(sort_key_display) ==
    /\ ~destroyed /\ ~order_dialog.open
    /\ sort_var' = sort_key_display
    /\ current_data' \in sort_data(current_data, sort_key_display)
    /\ last_op' = [op |-> "sort", ok |-> ~SortFails(current_data, sort_key_display)]
    /\ UNCHANGED <<comment, calls, formatter_vars, summary, sessions, results, sqlite_sequence,
                   imported_filename_source, order_dialog, destroyed>>

\* show_manual_order_dialog: with data loaded the dialog opens, its
\* listbox_data_map holding the records in the order of current_data
ShowManualOrderDialog ==
    /\ ~destroyed /\ ~order_dialog.open
    /\ order_dialog' = IF current_data = <<>> THEN NoDialog
                       ELSE [open |-> TRUE, listbox_data_map |-> current_data]
    /\ last_op' = [op |-> "show", ok |-> current_data # <<>>]
    /\ UNCHANGED <<classifier_vars, formatter_vars, summary, sessions, results, sqlite_sequence,
                   imported_filename_source, sort_var, destroyed>>

\* target_lb_idx of move_item, 0 when it returns without moving; the
\* listbox counts from 0, the model from 1, with 0 for no selection
target_lb_idx(direction, current_lb_idx, size) ==
    IF current_lb_idx = 0 THEN 0
    ELSE IF direction = "up" /\ current_lb_idx > 1 THEN current_lb_idx - 1
    ELSE IF direction = "down" /\ current_lb_idx < size THEN current_lb_idx + 1
    ELSE 0

\* listbox_data_map after the two entries were exchanged
Swapped(listbox_data_map, current_lb_idx, target) ==
    [listbox_data_map EXCEPT ![current_lb_idx] = listbox_data_map[target],
                             ![target] = listbox_data_map[current_lb_idx]]

\* move_item(direction) with the entry current_lb_idx selected in the listbox
MoveItem(direction, current_lb_idx) ==
    /\ order_dialog.open
    /\ current_lb_idx \in 0..Len(order_dialog.listbox_data_map)
    /\ order_dialog' =
          IF target_lb_idx(direction, current_lb_idx,
                           Len(order_dialog.listbox_data_map)) = 0
              THEN order_dialog
          ELSE [order_dialog EXCEPT !.listbox_data_map =
                   Swapped(order_dialog.listbox_data_map, current_lb_idx,
                           target_lb_idx(direction, current_lb_idx,
                                         Len(order_dialog.listbox_data_map)))]
    /\ last_op' = [op |-> "move",
                   ok |-> target_lb_idx(direction, current_lb_idx,
                                        Len(order_dialog.listbox_data_map)) # 0]
    /\ UNCHANGED <<classifier_vars, formatter_vars, summary, sessions, results, sqlite_sequence,
                   imported_filename_source, sort_var, destroyed>>

\* apply_manual_order: new_data_order becomes current_data, the dropdown
\* shows "Manual Order" and the dialog is destroyed; a length mismatch is
\* reported and leaves everything as it is
ApplyManualOrder ==
    /\ order_dialog.open
    /\ IF Len(order_dialog.listbox_data_map) # Len(current_data)
          THEN UNCHANGED <<current_data, sort_var, order_dialog>>
       ELSE /\ current_data' = order_dialog.listbox_data_map
            /\ sort_var' = ManualOrder
            /\ order_dialog' = NoDialog
    /\ last_op' = [op |-> "apply",
                   ok |-> Len(order_dialog.listbox_data_map) = Len(current_data)]
    /\ UNCHANGED <<comment, calls, formatter_vars, summary, sessions, results, sqlite_sequence,
                   imported_filename_source, destroyed>>

\* the Cancel button of the dialog: order_window.destroy
CancelManualOrder ==
    /\ order_dialog.open
    /\ order_dialog' = NoDialog
    /\ last_op' = [op |-> "cancel", ok |-> TRUE]
    /\ UNCHANGED <<classifier_vars, formatter_vars, summary, sessions, results, sqlite_sequence,
                   imported_filename_source, sort_var, destroyed>>

NextSort ==
    \/ \E sort_key_display \in DOMAIN sort_options \cup {ManualOrder} :
          SortData(sort_key_display)
    \/ ShowManualOrderDialog
    \/ \E direction \in {"up", "down"}, current_lb_idx \in 0..MaxRows :
          MoveItem(direction, current_lb_idx)
    \/ ApplyManualOrder
    \/ CancelManualOrder

SpecSort == InitSort /\ [][NextSort]_vars

-----------------------------------------------------------------------------
(* What the properties below speak of *)

\* the row a call was given
RowOf(c) == c.before[c.index]

\* the row with a key set to a string
WithField(row_dict, key, chars) ==
    [k \in DOMAIN row_dict \cup {key} |->
        IF k = key THEN Str(chars) ELSE row_dict[k]]

ZeroChars == <<"0", ".", "0">>

IsPositive(row_dict) == QftResult(row_dict) \in {POS, POSSTAR}

IsIndeterminate(row_dict) == QftResult(row_dict) = IND

\* the field converts to a number
Parses(row_dict, key) == ~Raised(NumField(row_dict, key))

AllParse(row_dict) == \A key \in NumericKeys : Parses(row_dict, key)

\* the field converts to a number in [0.35, 1.0)
InWeakRange(row_dict, key) ==
    /\ Parses(row_dict, key)
    /\ Ge(NumField(row_dict, key), Finite(35, 100))
    /\ Lt(NumField(row_dict, key), Finite(1, 1))

FieldLt(row_dict, key, y) == Parses(row_dict, key) /\ Lt(NumField(row_dict, key), y)

FieldLe(row_dict, key, y) == Parses(row_dict, key) /\ Le(NumField(row_dict, key), y)

FieldGt(row_dict, key, y) == Parses(row_dict, key) /\ Gt(NumField(row_dict, key), y)

FieldGe(row_dict, key, y) == Parses(row_dict, key) /\ Ge(NumField(row_dict, key), y)

StrongRow(row_dict) ==
    /\ IsPositive(row_dict)
    /\ \/ FieldGe(row_dict, "tb1_nil", Finite(1, 1))
       \/ FieldGe(row_dict, "tb2_nil", Finite(1, 1))

BothWeakRow(row_dict) ==
    /\ IsPositive(row_dict)
    /\ InWeakRange(row_dict, "tb1_nil")
    /\ InWeakRange(row_dict, "tb2_nil")

NotBothWeakRow(row_dict) ==
    /\ IsPositive(row_dict)
    /\ FieldLt(row_dict, "tb1_nil", Finite(1, 1))
    /\ FieldLt(row_dict, "tb2_nil", Finite(1, 1))
    /\ ~(InWeakRange(row_dict, "tb1_nil") /\ InWeakRange(row_dict, "tb2_nil"))

NotBothWeakComment(row_dict) ==
    IF InWeakRange(row_dict, "tb1_nil") THEN "WP (TB1)"
    ELSE IF InWeakRange(row_dict, "tb2_nil") THEN "WP (TB2)"
    ELSE ""

HighNilRow(row_dict) ==
    IsIndeterminate(row_dict) /\ FieldGt(row_dict, "nil_result", Finite(8, 1))

LowMitRow(row_dict) ==
    /\ IsIndeterminate(row_dict)
    /\ FieldLe(row_dict, "nil_result", Finite(8, 1))
    /\ FieldLt(row_dict, "mit_nil", Finite(5, 10))

UnflaggedIndRow(row_dict) ==
    /\ IsIndeterminate(row_dict)
    /\ FieldLe(row_dict, "nil_result", Finite(8, 1))
    /\ FieldGe(row_dict, "mit_nil", Finite(5, 10))

OtherCategoryRow(row_dict) == QftResult(row_dict) \notin {POS, POSSTAR, IND}

-----------------------------------------------------------------------------
(* C1 *)

\* C1, as stated: a POS or POS* row with tb1_nil >= 1.0 or tb2_nil >= 1.0
\* gets the empty comment, whatever its other fields hold.
C1_AsStated ==
    \A c \in calls : StrongRow(RowOf(c)) => c.result = ""

\* C1, amended: a POS or POS* row with tb1_nil >= 1.0 or tb2_nil >= 1.0 gets
\* the empty comment when all four numeric fields convert, and "Error" when
\* one of them does not.
C1_StrongPositive ==
    \A c \in calls :
        StrongRow(RowOf(c)) =>
            c.result = IF AllParse(RowOf(c)) THEN "" ELSE "Error"

\* a strong positive through tb2_nil alone, tb1_nil being in the weak range
C1_Witness ==
    \E c \in calls :
        /\ StrongRow(RowOf(c)) /\ AllParse(RowOf(c))
        /\ InWeakRange(RowOf(c), "tb1_nil")
        /\ c.result = ""

(* C2 *)

\* C2, as stated: a POS or POS* row with tb1_nil and tb2_nil both in
\* [0.35, 1.0) gets "WP (Both)".
C2_AsStated ==
    \A c \in calls : BothWeakRow(RowOf(c)) => c.result = "WP (Both)"

\* C2, amended: such a row gets "WP (Both)" when nil_result and mit_nil
\* convert too, and "Error" when one of them does not.
C2_WeakBoth ==
    \A c \in calls :
        BothWeakRow(RowOf(c)) =>
            c.result = IF AllParse(RowOf(c)) THEN "WP (Both)" ELSE "Error"

\* both differentials on the floor of the range, 0.35
C2_Witness ==
    \E c \in calls :
        /\ BothWeakRow(RowOf(c)) /\ AllParse(RowOf(c))
        /\ Eq(NumField(RowOf(c), "tb1_nil"), Finite(35, 100))
        /\ Eq(NumField(RowOf(c), "tb2_nil"), Finite(35, 100))
        /\ c.result = "WP (Both)"

(* C3 *)

\* C3, as stated: a POS or POS* row with both differentials below 1.0 and not
\* both in [0.35, 1.0) gets "WP (TB1)" when only tb1_nil is in the range,
\* "WP (TB2)" when only tb2_nil is, and the empty comment when neither is.
C3_AsStated ==
    \A c \in calls :
        NotBothWeakRow(RowOf(c)) => c.result = NotBothWeakComment(RowOf(c))

\* C3, amended: the same when nil_result and mit_nil convert too; "Error"
\* when one of them does not.
C3_WeakSingle ==
    \A c \in calls :
        NotBothWeakRow(RowOf(c)) =>
            c.result = IF AllParse(RowOf(c)) THEN NotBothWeakComment(RowOf(c))
                       ELSE "Error"

\* tb1_nil negative and tb2_nil alone in the range
C3_Witness ==
    \E c \in calls :
        /\ NotBothWeakRow(RowOf(c)) /\ AllParse(RowOf(c))
        /\ FieldLt(RowOf(c), "tb1_nil", Finite(0, 1))
        /\ InWeakRange(RowOf(c), "tb2_nil")
        /\ c.result = "WP (TB2)"

(* C4 *)

\* C4, as stated: an IND row with nil_result > 8.0 gets "High Nil" regardless
\* of mit_nil, also when mit_nil < 0.5 would give "Low Mit".
C4_AsStated ==
    \A c \in calls : HighNilRow(RowOf(c)) => c.result = "High Nil"

\* C4, amended: an IND row with nil_result > 8.0 gets "High Nil" for every
\* mit_nil that converts, below 0.5 or not, the other fields converting too;
\* it gets "Error" when one of the numeric fields does not convert.
C4_HighNil ==
    \A c \in calls :
        HighNilRow(RowOf(c)) =>
            c.result = IF AllParse(RowOf(c)) THEN "High Nil" ELSE "Error"

\* both conditions hold and "High Nil" is the comment
C4_Witness ==
    \E c \in calls :
        /\ HighNilRow(RowOf(c)) /\ AllParse(RowOf(c))
        /\ FieldLt(RowOf(c), "mit_nil", Finite(5, 10))
        /\ c.result = "High Nil"

(* C5 *)

\* C5, as stated: an IND row with nil_result <= 8.0 gets "Low Mit" when
\* mit_nil < 0.5 and the empty comment when mit_nil >= 0.5.
C5_AsStated ==
    \A c \in calls :
        /\ LowMitRow(RowOf(c)) => c.result = "Low Mit"
        /\ UnflaggedIndRow(RowOf(c)) => c.result = ""

\* C5, amended: the same when tb1_nil and tb2_nil convert too; "Error" when
\* one of them does not.
C5_LowMit ==
    \A c \in calls :
        /\ LowMitRow(RowOf(c)) =>
              c.result = IF AllParse(RowOf(c)) THEN "Low Mit" ELSE "Error"
        /\ UnflaggedIndRow(RowOf(c)) =>
              c.result = IF AllParse(RowOf(c)) THEN "" ELSE "Error"

\* nil_result exactly 8.0 and mit_nil exactly 0.5: neither flag
C5_Witness ==
    \E c \in calls :
        /\ UnflaggedIndRow(RowOf(c)) /\ AllParse(RowOf(c))
        /\ "nil_result" \in DOMAIN RowOf(c)
        /\ Eq(NumField(RowOf(c), "nil_result"), Finite(8, 1))
        /\ Eq(NumField(RowOf(c), "mit_nil"), Finite(5, 10))
        /\ c.result = ""

(* C6 *)

\* C6, as stated: a row whose category is NEG or anything outside POS, POS*,
\* IND gets the empty comment, whatever its numeric fields contain.
C6_AsStated ==
    \A c \in calls : OtherCategoryRow(RowOf(c)) => c.result = ""

\* C6, amended: such a row gets the empty comment when each of the four
\* numeric fields converts, whatever their values, and "Error" when one of
\* them does not.
C6_OtherCategory ==
    \A c \in calls :
        OtherCategoryRow(RowOf(c)) =>
            c.result = IF AllParse(RowOf(c)) THEN "" ELSE "Error"

\* a NEG row whose values would flag a positive and an indeterminate row
C6_Witness ==
    \E c \in calls :
        /\ QftResult(RowOf(c)) = <<"N", "E", "G">>
        /\ AllParse(RowOf(c))
        /\ FieldGt(RowOf(c), "nil_result", Finite(8, 1))
        /\ InWeakRange(RowOf(c), "tb1_nil")
        /\ c.result = ""

(* C7 *)

\* the field holds something that does not convert to a number
NonNumeric(row_dict, key) == key \in DOMAIN row_dict /\ ~Parses(row_dict, key)

\* C7, as stated: a numeric field that is absent or holds non-numeric content
\* counts as 0.0: the comment is the one the row gets with "0.0" in its place.
C7_AsStated ==
    \A c \in calls : \A key \in NumericKeys :
        (key \notin DOMAIN RowOf(c) \/ NonNumeric(RowOf(c), key)) =>
            c.result = calculate_comment(WithField(RowOf(c), key, ZeroChars))

\* C7, amended: an absent numeric field counts as 0.0, the comment being
\* computed from the other fields; a numeric field holding non-numeric
\* content makes the comment "Error".
C7_AbsentIsZero ==
    \A c \in calls : \A key \in NumericKeys :
        /\ key \notin DOMAIN RowOf(c) =>
              c.result = calculate_comment(WithField(RowOf(c), key, ZeroChars))
        /\ NonNumeric(RowOf(c), key) => c.result = "Error"

\* an IND row without mit_nil is flagged "Low Mit"; its nil_result is present
C7_Witness ==
    \E c \in calls :
        /\ IsIndeterminate(RowOf(c))
        /\ "mit_nil" \notin DOMAIN RowOf(c)
        /\ "nil_result" \in DOMAIN RowOf(c)
        /\ AllParse(RowOf(c))
        /\ c.result = "Low Mit"

(* C8 *)

Comments ==
    {"", "WP (TB1)", "WP (TB2)", "WP (Both)", "High Nil", "Low Mit", "Error"}

\* C8: every call returns one of the seven comments, no exception leaving
\* the function, and it returns "Error" exactly when one of nil_result,
\* tb1_nil, tb2_nil, mit_nil does not convert to a number.
C8_ErrorIffParseFailure ==
    \A c \in calls :
        /\ c.result \in Comments
        /\ c.result = "Error" <=> ~AllParse(RowOf(c))

\* a POS row flagged weak positive by tb1_nil and tb2_nil, whose mit_nil does
\* not convert: "Error"
C8_Witness ==
    \E c \in calls :
        /\ BothWeakRow(RowOf(c))
        /\ NonNumeric(RowOf(c), "mit_nil")
        /\ c.result = "Error"

(* C9 *)

Operators == {">", "<"}

\* the characters after one leading '>' or '<', surrounding whitespace removed
AfterOperator(chars) ==
    LET s == strip(chars)
    IN  IF s # <<>> /\ s[1] \in Operators THEN strip(Tail(s)) ELSE s

\* a plain decimal number: digits, at most one point, at least one digit
PlainNumber(chars) ==
    /\ \E i \in 1..Len(chars) : IsDigit(chars[i])
    /\ \A i \in 1..Len(chars) : IsDigit(chars[i]) \/ chars[i] = "."
    /\ Cardinality({i \in 1..Len(chars) : chars[i] = "."}) <= 1

\* the field is written ">x" or "<x", x a plain number
ComparisonField(row_dict, key) ==
    /\ key \in DOMAIN row_dict
    /\ row_dict[key].t = "str"
    /\ LET s == strip(row_dict[key].s)
       IN  s # <<>> /\ s[1] \in Operators /\ PlainNumber(AfterOperator(s))

\* the field is empty or whitespace once a leading '>' or '<' is removed
BlankField(row_dict, key) ==
    /\ key \in DOMAIN row_dict
    /\ row_dict[key].t = "str"
    /\ AfterOperator(row_dict[key].s) = <<>>

\* C9: a numeric field written ">x" or "<x", whitespace around it or not,
\* gives the comment the row gets with x in its place; a field that is blank
\* after the stripping gives the comment the row gets with "0.0".
C9_ComparisonAsNumber ==
    \A c \in calls : \A key \in NumericKeys :
        /\ ComparisonField(RowOf(c), key) =>
              c.result = calculate_comment(
                  WithField(RowOf(c), key, AfterOperator(RowOf(c)[key].s)))
        /\ BlankField(RowOf(c), key) =>
              c.result = calculate_comment(WithField(RowOf(c), key, ZeroChars))

\* tb1_nil " <0.35 " makes a POS row "WP (TB1)", as "0.35" does
C9_Witness ==
    \E c \in calls :
        /\ IsPositive(RowOf(c))
        /\ ComparisonField(RowOf(c), "tb1_nil")
        /\ RowOf(c)["tb1_nil"].s[1] = " "
        /\ c.result = "WP (TB1)"

(* C10 *)

-----------------------------------------------------------------------------
(* What the properties of the formatter speak of *)

\* format_number_with_decimals has returned or raised
Formatted == display_value # NotFormatted

\* the input is a string that is empty or holds whitespace only
WhitespaceOnly(v) ==
    v.t = "str" /\ \A i \in 1..Len(v.s) : v.s[i] \in Whitespace

OneSpace == Str(<<" ">>)

\* the input is a string holding '>' or '<'
ComparisonInput(v) == v.t = "str" /\ IsComparison(v.s)

\* the input is a string float() converts: a number, inf or nan
NumericInput(v) ==
    /\ v.t = "str"
    /\ ~WhitespaceOnly(v)
    /\ ~ComparisonInput(v)
    /\ ~Raised(float(v.s))

\* the input is a string float() converts to a finite number
FiniteInput(v) == NumericInput(v) /\ float(v.s).k = "num"

\* the parsed value of a finite input is a whole number
WholeInput(v) == float(v.s).num % float(v.s).den = 0

\* the number of characters after the decimal point, 0 when there is none
FractionDigits(chars) ==
    IF IndexOf(chars, {"."}) = 0 THEN 0 ELSE Len(chars) - IndexOf(chars, {"."})

\* the decimals setting is the string of an integer N >= 0
IsDecimalCount(d) == d # DefaultSetting /\ int(d).k = "int" /\ int(d).val >= 0

\* the characters are an integer literal: an optional sign, then digits
IntegerLiteral(chars) ==
    LET s == strip(chars)
    IN  s # <<>> /\ IsDigitPart(IF s[1] \in {"+", "-"} THEN Tail(s) ELSE s)

\* the decimals setting is neither 'default' nor the string of an integer
IsBadSetting(d) == d # DefaultSetting /\ (d.t # "str" \/ ~IntegerLiteral(d.s))

\* 2 * |x - y| <= 10^-decimals, for finite floats x and y
WithinHalfUnit(x, y, decimals) ==
    2 * Abs(x.num * y.den - y.num * x.den) * Pow10(decimals) <= x.den * y.den

(* C11 *)

C14_AsStated ==
    (Formatted /\ decimal_places = DefaultSetting /\ NumericInput(raw_value)) =>
        IF FiniteInput(raw_value) /\ WholeInput(raw_value)
            THEN display_value =
                    Str(IntChars(float(raw_value.s).num \div float(raw_value.s).den))
        ELSE display_value = raw_value

(* C15 *)

\* C15: with decimals the string of an integer N >= 0 and an input that
\* parses to a finite number, the result has exactly N digits after the
\* decimal point (no point for N = 0) and is a nearest such value to the
\* parsed one.
C15_RoundedToDecimals ==
    (Formatted /\ IsDecimalCount(decimal_places) /\ FiniteInput(raw_value)) =>
        /\ display_value.t = "str"
        /\ FractionDigits(display_value.s) = int(decimal_places).val
        /\ int(decimal_places).val = 0 => IndexOf(display_value.s, {"."}) = 0
        /\ float(display_value.s).k = "num"
        /\ WithinHalfUnit(float(raw_value.s), float(display_value.s),
                          int(decimal_places).val)

\* "10.256" with 2 decimals gives "10.26"
C15_Witness ==
    /\ raw_value = Str(<<"1", "0", ".", "2", "5", "6">>)
    /\ decimal_places = Str(<<"2">>)
    /\ display_value = Str(<<"1", "0", ".", "2", "6">>)

(* C16 *)

C17_Total ==
    (Formatted /\ raw_value.t = "str") =>
        /\ display_value.t = "str"
        /\ (~NumericInput(raw_value) /\ ~WhitespaceOnly(raw_value)
                /\ ~ComparisonInput(raw_value)) => display_value = raw_value

(* C18 *)

\* the pair of a record the totals are said to depend on
PairOf(res) == <<QftResult(res), calculate_comment(res)>>

\* two lists hold the same multiset of pairs
SamePairs(list1, list2) ==
    /\ Len(list1) = Len(list2)
    /\ \A i \in 1..Len(list1) :
          Count(list1, {res \in Records(list1) : PairOf(res) = PairOf(list1[i])})
            = Count(list2, {res \in Records(list2) : PairOf(res) = PairOf(list1[i])})

\* the totals the property names
NamedTotals(s) ==
    <<s.positive_results_count, s.wp_total_count, s.wp_tb1_only, s.wp_tb2_only,
      s.wp_both, s.negative_results_count, s.indeterminate_results_count,
      s.high_nil_count, s.low_mit_count>>

\* C18: the totals of the summary are determined by the pairs (upper-cased
\* qft_result, comment) of the records: every list of records with the same
\* multiset of pairs as the exported one has the same totals.
C18_PureReduction ==
    summary # NoSummary =>
        \A other \in [1..Len(current_data) -> SummaryRows] :
            SamePairs(other, current_data) =>
                NamedTotals(SummaryTotals(other)) = NamedTotals(summary)

(* C19 *)

\* the field is a string with '>' or '<' at a place other than its first
\* character, surrounding whitespace not counted
InnerOperator(row_dict, key) ==
    /\ key \in DOMAIN row_dict
    /\ row_dict[key].t = "str"
    /\ \E i \in 2..Len(strip(row_dict[key].s)) :
          strip(row_dict[key].s)[i] \in Operators

\* C19: a '>' or '<' is removed from a numeric field only where it leads: a
\* record with a numeric field holding '>' or '<' at any other place gets
\* the comment "Error".
C19_LeadingOnly ==
    \A c \in calls :
        (\E key \in NumericKeys : InnerOperator(RowOf(c), key)) =>
            c.result = "Error"

(* C20 *)

\* C20: whatever saves, renames and deletes were made, no two rows of
\* sessions have the same session_name; and a rename to a name another
\* session holds is rejected, sessions and results staying as they were.
C20_UniqueNames ==
    /\ \A s, t \in sessions : s.session_name = t.session_name => s = t
    /\ (/\ last_op.op = "rename"
        /\ \E s \in last_op.sessions_before :
              /\ s.session_name = last_op.session_name
              /\ s.session_id # last_op.session_id)
       => (~last_op.ok /\ sessions = last_op.sessions_before
                       /\ results = last_op.results_before)

\* two sessions, and a rename of one to the other's name just rejected
C20_Witness ==
    /\ Cardinality(sessions) = 2
    /\ last_op.op = "rename"
    /\ ~last_op.ok
    /\ \E s \in sessions :
          s.session_name = last_op.session_name /\ s.session_id # last_op.session_id
    /\ \E session_id \in SessionIds : results[session_id] # <<>>

-----------------------------------------------------------------------------
(* Saving over an existing session, and deleting one *)

\* the handlers that ask "save the current session first?"
Handlers == {"import", "add", "load", "clear", "close"}

\* the save_session call of a step, read from the operation it recorded: the
\* call itself, or the save a handler made first
SaveOf(op) ==
    IF op.op \in Handlers THEN op.save
    ELSE IF op.op = "save" THEN op
    ELSE Recorded("none", NotSaved(FALSE, ""))

\* the session_id of the session called session_name, 0 when there is none
IdOf(session_name) ==
    IF SessionsNamed(session_name) = {} THEN 0
    ELSE (CHOOSE s \in SessionsNamed(session_name) : TRUE).session_id

\* the step left the three tables as they were
TablesUnchanged == UNCHANGED <<sessions, results, sqlite_sequence>>

\* the step replaced the rows of the session called session_name by those of
\* current_data, under the session_id it had, and created no session
Overwritten(session_name) ==
    /\ results' = [results EXCEPT ![IdOf(session_name)] = StoredRows(current_data)]
    /\ sessions' = sessions
    /\ sqlite_sequence' = sqlite_sequence

\* the overwrite question was answered No: nothing changed, False returned
Declined(save) == save.overwrite = "no" => (TablesUnchanged /\ ~save.ok)

C22_NoOrphans ==
    \A session_id \in SessionIds :
        results[session_id] # <<>> => \E s \in sessions : s.session_id = session_id

-----------------------------------------------------------------------------
(* Saving a session and loading it again *)

\* two records agree: the nine text fields are equal strings, requested_date
\* is the same datetime or None in both, calculate_comment gives the same
SameRecord(saved, loaded) ==
    /\ \A key \in TextColumns :
          /\ key \in DOMAIN saved /\ key \in DOMAIN loaded
          /\ saved[key].t = "str" /\ loaded[key] = saved[key]
    /\ loaded["requested_date"] = saved["requested_date"]
    /\ calculate_comment(loaded) = calculate_comment(saved)

\* the two lists hold the same multiset of records
SameRecords(saved, loaded) ==
    /\ Len(saved) = Len(loaded)
    /\ \E order \in Permutations(1..Len(saved)) :
          \A i \in 1..Len(saved) : SameRecord(saved[i], loaded[order[i]])

\* the step is a load_selected_session that set current_data from a session
\* saved from the current_data it found: save_session succeeded under the
\* session's name in the step before, or as the save the load made first
LoadsWhatWasSaved ==
    /\ last_op'.op = "load" /\ ~last_op'.aborted
    /\ \/ /\ last_op.op = "save" /\ last_op.ok
          /\ last_op.session_name = last_op'.loaded.session_name
          /\ last_op'.answer \in {"no", "not asked"}
       \/ /\ last_op'.save.ok
          /\ last_op'.save.session_name = last_op'.loaded.session_name

\* what set_data_rows makes of the rows load_selected_session reads from a
\* session holding the rows save_session writes for data
Reloaded(data) ==
    set_data_rows(loaded_rows([session_id \in {1} |-> StoredRows(data)], 1))

\* C23: loading a session that was just saved gives current_data the records
\* it held when it was saved: the same multiset, the nine text fields equal
\* as strings, requested_date the same datetime or None, and the same
\* calculate_comment for each record; and whatever current_data holds, the
\* rows a save writes for it read back as the same records
C23_RoundTrip ==
    /\ [][LoadsWhatWasSaved => SameRecords(current_data, current_data')]_vars
    /\ [](SameRecords(current_data, Reloaded(current_data)))

\* a session of a dated and an undated record was saved by the load that
\* then read it back
C23_Witness ==
    /\ last_op.op = "load" /\ ~last_op.aborted
    /\ last_op.save.ok /\ last_op.save.session_name = last_op.loaded.session_name
    /\ \E i, j \in 1..Len(current_data) :
          /\ current_data[i]["requested_date"] = None
          /\ current_data[j]["requested_date"].t = "datetime"
          /\ calculate_comment(current_data[j]) # ""

-----------------------------------------------------------------------------
(* Importing in add mode *)

\* the barcodes of the list are pairwise distinct
DistinctBarcodes(data) ==
    \A i, j \in 1..Len(data) : data[i]["barcode"] = data[j]["barcode"] => i = j

\* every record of before is a record of after
AllKept(before, after) ==
    \A i \in 1..Len(before) : \E j \in 1..Len(after) : after[j] = before[i]

\* C24: an import in add mode into data whose barcodes are pairwise distinct
\* leaves them pairwise distinct, whatever the file holds, and keeps every
\* record that was there
C24_AddKeepsDistinct ==
    [][(last_op'.op = "add" /\ DistinctBarcodes(current_data))
          => (DistinctBarcodes(current_data') /\ AllKept(current_data, current_data'))]_vars

-----------------------------------------------------------------------------
(* The question "save the current session first?" *)

\* the step is one of the handlers that replace or drop the loaded data, run
\* with data loaded, and the user cancelled the question or chose to save
\* first and save_session returned False
SaveFirstFailed ==
    /\ last_op'.op \in {"import", "load", "clear", "close"}
    /\ current_data # <<>>
    /\ \/ last_op'.answer = "cancel"
       \/ last_op'.answer = "yes" /\ ~last_op'.save.ok

\* C25: when the question is cancelled or the save made first fails, the
\* handler leaves current_data and imported_filename_source as they were and
\* does not close the window
C25_DataKept ==
    [][SaveFirstFailed
          => (/\ current_data' = current_data
              /\ imported_filename_source' = imported_filename_source
              /\ ~destroyed')]_vars

\* on_closing was answered Yes with data loaded, the overwrite of the
\* session was declined, and the window is still open
C25_Witness ==
    /\ last_op.op = "close" /\ last_op.answer = "yes"
    /\ last_op.save.overwrite = "no" /\ ~last_op.save.ok
    /\ current_data # <<>> /\ imported_filename_source # NoSource
    /\ ~destroyed

\* C26: when the source tracker names a session (a save or a load set it)
\* and the question of clear_data is answered Yes, save_session is called
\* with that session's name as session_name_in, as on_closing calls it
C26_ClearPassesName ==
    [][(/\ last_op'.op \in {"clear", "close"}
        /\ last_op'.answer = "yes"
        /\ imported_filename_source.kind = "session")
          => last_op'.session_name_in = imported_filename_source.name]_vars

-----------------------------------------------------------------------------
(* Sorting and manual order *)

\* the records without a value in the column stand after all others
MissingLast(data, sort_column) ==
    \A i, j \in 1..Len(data) :
        (i < j /\ IsMissing(data[i][sort_column])) => IsMissing(data[j][sort_column])

\* the records without a value in the column stand before all others
MissingFirst(data, sort_column) ==
    \A i, j \in 1..Len(data) :
        (i < j /\ IsMissing(data[j][sort_column])) => IsMissing(data[i][sort_column])

\* C27: sort_data succeeds for every data set and every option with a
\* column, and leaves the records whose value is None or empty after all
\* others when ascending and before all others when descending
C27_SortSucceeds ==
    (last_op.op = "sort" /\ sort_var \in DOMAIN sort_options)
        => /\ last_op.ok
           /\ IF sort_options[sort_var][2] = "asc"
                  THEN MissingLast(current_data, sort_options[sort_var][1])
              ELSE MissingFirst(current_data, sort_options[sort_var][1])

\* the two lists hold the same records, each as many times
IsPermutation(after, before) ==
    /\ Len(after) = Len(before)
    /\ \E order \in Permutations(1..Len(before)) :
          \A i \in 1..Len(before) : after[i] = before[order[i]]

-----------------------------------------------------------------------------
(* The totals of the summary page *)

\* the places of the list whose upper-cased qft_result is POS, POS*, NEG or IND
Classified(results_list) ==
    {i \in 1..Len(results_list) :
        QftResult(results_list[i]) \in {POS, POSSTAR, NEG, IND}}

\* C29: the four top-level totals of the summary (strong positives, weak
\* positives, negatives, indeterminates) sum to the number of records whose
\* qft_result is POS, POS*, NEG or IND; the strong total is the sum of TB1
\* only, TB2 only and both, and the weak total the sum of WP TB1, WP TB2 and
\* WP both
C29_TotalsSum ==
    summary # NoSummary
        => /\ summary.positive_results_count + summary.wp_total_count
                 + summary.negative_results_count
                 + summary.indeterminate_results_count
              = Cardinality(Classified(current_data))
           /\ summary.positive_results_count
              = summary.tb1_strong_only + summary.tb2_strong_only
                + summary.both_tb_strong
           /\ summary.wp_total_count
              = summary.wp_tb1_only + summary.wp_tb2_only + summary.wp_both

=============================================================================
